---- MODULE Spec2Model ----
(***************************************************************************)
(* LeadEvolver: the research / classify pipeline controllers               *)
(* (LeadClassifierPipeline, LeadEvolverPipeline, LeadProfilerPipeline),    *)
(* the Classification Step (LeadClassifierModule) and the Blackboard.      *)
(*                                                                         *)
(* Text is a sequence of tokens (a token is a character or an atomic chunk *)
(* of characters); the empty text is << >>.  Python's None is PyNone for a *)
(* label and NoneStr for an optional text.                                 *)
(***************************************************************************)
EXTENDS Naturals, Sequences, FiniteSets, TLC

VARIABLES
    variant,                \* which controller's forward() is running
    use_system_cache,       \* constructor flag (LeadProfilerPipeline)
    update_classification,  \* constructor flag (LeadProfilerPipeline)
    cache,                  \* cache/system/<lead>/blackboard.json: a dict, or CacheMiss
    pc,                     \* position inside forward()
    blackboard,             \* local `blackboard`
    investigation_rounds,   \* local `investigation_rounds`
    iter,                   \* iterations of the for loop already completed
    raw,                    \* output of the last dspy.Predict(LeadClassifier) call
    classification,         \* dict returned by the last LeadClassifierModule call
    output_ready,           \* local `output_ready` (LeadProfilerPipeline)
    profile,                \* local `profile` (LeadProfilerPipeline)
    research_goal,          \* local `research_goal` (LeadProfilerPipeline)
    result,                 \* the dict forward() returned (pc = "returned")
    error,                  \* the exception forward() raised (pc = "raised")
    trace,                  \* history: the step calls made so far, in order
    lastContext,            \* history: lead_context of the last classifier call
    failBlackboard,         \* history: blackboard handed to the research call that raised
    arg,                    \* the argument of the judge / metric / blackboard call under way
    ret,                    \* what that call returned
    model_calls,            \* number of chat-completion requests the judge has sent
    page_cache,             \* cache/firecrawl: cache key -> content of the cached file
    _judge_instance,        \* module global `_judge_instance` of a metrics module
    constructed,            \* history: number of judge instances constructed so far
    threads                 \* evaluator threads: position in training_metric, local `judge`

vars == << variant, use_system_cache, update_classification, cache, pc, blackboard,
           investigation_rounds, iter, raw, classification, output_ready, profile,
           research_goal, result, error, trace, lastContext, failBlackboard,
           arg, ret, model_calls, page_cache, _judge_instance, constructed, threads >>

----------------------------------------------------------------------------
(* Values *)

PyNone == "<None>"
NoneStr == << "<None>" >>
EmptyStr == << >>

Labels == { "strong_fit", "weak_fit", "not_a_fit" }

\* Optional[Literal["strong_fit","weak_fit","not_a_fit"]]
LeadQualityOutputs == Labels \cup { PyNone }

\* Optional[str]: the further_investigation texts the decision call is given here
FurtherInvestigationOutputs ==
    { NoneStr,
      EmptyStr,
      << " " >>,
      << "n", "o", "n", "e" >>,
      << "N", "o", "N", "E" >>,
      << " ", "n", "o", "n", "e" >>,
      << "G", "o" >> }

Whitespace == { " ", "\n", "\t" }

\* bool(x) of an Optional[str]
Truthy(s) == s # NoneStr /\ s # EmptyStr

LowerChar(c) ==
    CASE c = "N" -> "n"
      [] c = "O" -> "o"
      [] c = "E" -> "e"
      [] c = "G" -> "g"
      [] c = "WEAK" -> "weak"
      [] c = "FIT" -> "fit"
      [] c = "TOTAL:" -> "total:"
      [] c = "ACCURACY:" -> "accuracy:"
      [] c = "Strong" -> "strong"
      [] c = "STRONG" -> "strong"
      [] c = "Weak" -> "weak"
      [] c = "Not" -> "not"
      [] c = "Fit" -> "fit"
      [] c = "A.COM" -> "a.com"
      [] c = ".PDF" -> ".pdf"
      [] OTHER -> c

\* str.lower()
Lower(s) == [ k \in 1..Len(s) |-> LowerChar(s[k]) ]

RECURSIVE LStrip(_)
LStrip(s) == IF s # << >> /\ Head(s) \in Whitespace THEN LStrip(Tail(s)) ELSE s

RECURSIVE RStrip(_)
RStrip(s) ==
    IF s # << >> /\ s[Len(s)] \in Whitespace THEN RStrip(SubSeq(s, 1, Len(s) - 1)) ELSE s

\* str.strip()
Strip(s) == RStrip(LStrip(s))

----------------------------------------------------------------------------
(* PageFindings and Blackboard (src/data_schema) *)

\* PageFindings.to_string: the fields in a fixed order (interesting_links is not rendered)
PageFindingsToString(f) ==
    << "URL: ", f.url, "\nTitle: ", f.title, "\nSummary: ", f.summary,
       "\nPage Findings: ", f.page_findings, "\nCurrent Goal: ", f.current_goal, "\n\n" >>

Blackboard(pf, rf) == [ page_findings |-> pf, research_findings |-> rf ]

\* Blackboard(): both fields default to ""
NewBlackboard == Blackboard(EmptyStr, EmptyStr)

\* "\n\n".join(parts)
RECURSIVE JoinParts(_)
JoinParts(parts) ==
    IF parts = << >> THEN EmptyStr
    ELSE IF Len(parts) = 1 THEN parts[1]
    ELSE parts[1] \o << "\n\n" >> \o JoinParts(Tail(parts))

\* Blackboard.to_string
to_string(bb) ==
    LET p1 == IF bb.research_findings # EmptyStr
              THEN << << "Research Summary:\n" >> \o bb.research_findings >>
              ELSE << >>
        p2 == IF bb.page_findings # EmptyStr
              THEN << << "\nPage Findings:\n" >> \o bb.page_findings >>
              ELSE << >>
    IN  JoinParts(p1 \o p2)

\* add_page_findings that puts each new finding in front of the older ones
RECURSIVE add_page_findings_NewestFirst(_, _)
add_page_findings_NewestFirst(bb, findings) ==
    IF findings = << >> THEN bb
    ELSE add_page_findings_NewestFirst(
             Blackboard(<< "\n" >> \o PageFindingsToString(Head(findings)) \o bb.page_findings,
                        bb.research_findings),
             Tail(findings))

\* Blackboard.add_page_findings: page_findings += "\n" + finding.to_string(), per finding
RECURSIVE add_page_findings(_, _)
add_page_findings(bb, findings) ==
    IF findings = << >> THEN bb
    ELSE add_page_findings(
             Blackboard(bb.page_findings \o << "\n" >> \o PageFindingsToString(Head(findings)),
                        bb.research_findings),
             Tail(findings))

\* add_research_findings that keeps only the newest text
add_research_findings_Overwrite(bb, text) ==
    IF text = EmptyStr \/ text = NoneStr THEN bb
    ELSE Blackboard(bb.page_findings, text)

\* add_research_findings that puts the new text after the prior text
add_research_findings_OldestFirst(bb, text) ==
    IF text = EmptyStr \/ text = NoneStr THEN bb
    ELSE IF bb.research_findings # EmptyStr
    THEN Blackboard(bb.page_findings,
                    bb.research_findings \o << "\n\nPrior Research:\n" >> \o text)
    ELSE Blackboard(bb.page_findings, text)

\* add_research_findings without the early return on a falsy text
add_research_findings_NoEarlyReturn(bb, text) ==
    IF bb.research_findings # EmptyStr
    THEN Blackboard(bb.page_findings,
                    text \o << "\n\nPrior Research:\n" >> \o bb.research_findings)
    ELSE Blackboard(bb.page_findings, text)

\* Blackboard.add_research_findings: new text first, then the prior text
add_research_findings(bb, text) ==
    IF text = EmptyStr \/ text = NoneStr THEN bb
    ELSE IF bb.research_findings # EmptyStr
    THEN Blackboard(bb.page_findings,
                    text \o << "\n\nPrior Research:\n" >> \o bb.research_findings)
    ELSE Blackboard(bb.page_findings, text)

\* A dict with text values is a function from its keys
DictGet(d, key, default) == IF key \in DOMAIN d THEN d[key] ELSE default

\* Blackboard.to_dict
to_dict(bb) ==
    [ k \in { "page_findings", "research_findings" } |->
        IF k = "page_findings" THEN bb.page_findings ELSE bb.research_findings ]

\* from_dict that looks the research findings up under another key
from_dict_WrongKey(d) ==
    Blackboard(DictGet(d, "page_findings", EmptyStr), DictGet(d, "research", EmptyStr))

\* Blackboard.from_dict
from_dict(d) ==
    Blackboard(DictGet(d, "page_findings", EmptyStr), DictGet(d, "research_findings", EmptyStr))

\* load_blackboard_from_cache: files is the content of the cache path (no file: {})
load_blackboard_from_cache(files) ==
    IF files # {} THEN from_dict(CHOOSE d \in files : TRUE) ELSE NewBlackboard

----------------------------------------------------------------------------
(* Classification Step (LeadClassifierModule.forward) *)

\* The keyword parameters forward() declares
ForwardParameters == { "lead_context", "ideal_customer_profile", "offering" }

\* Python raises TypeError for a keyword argument the callee does not declare
RaisesTypeError(keywords) == \E k \in keywords : k \notin ForwardParameters

\* is_final with the empty test made on the unstripped text
IsFinal_NoStrip(lead_quality, further_investigation) ==
    /\ lead_quality # PyNone
    /\ \/ further_investigation = NoneStr
       \/ further_investigation = EmptyStr
       \/ Lower(further_investigation) = << "n", "o", "n", "e" >>

\* is_final
IsFinal(lead_quality, further_investigation) ==
    /\ lead_quality # PyNone
    /\ \/ further_investigation = NoneStr
       \/ Strip(further_investigation) = EmptyStr
       \/ Lower(further_investigation) = << "n", "o", "n", "e" >>

\* The returned dict (rationale is passed through unchanged and is left out)
ClassifierForward(lead_quality, further_investigation) ==
    [ lead_quality |-> lead_quality,
      further_investigation |->
          IF IsFinal(lead_quality, further_investigation) THEN NoneStr
          ELSE further_investigation,
      is_final |-> IsFinal(lead_quality, further_investigation) ]

----------------------------------------------------------------------------
(* Research Step *)

PF1 == [ url |-> "u1", title |-> "t1", summary |-> "s1", page_findings |-> "f1",
         interesting_links |-> "l1", current_goal |-> "g1" ]

\* What one successful research call found: page findings and a synthesis
ResearchOutputs ==
    { [ page_findings |-> << >>, research_findings |-> EmptyStr ],
      [ page_findings |-> << PF1 >>, research_findings |-> << "A" >> ] }

\* ResearcherModule.forward (text blackboard): updated_blackboard
RECURSIVE ResearcherForward(_, _)
ResearcherForward(bb, findings) ==
    IF findings = << >> THEN bb
    ELSE ResearcherForward(bb \o << "\n" >> \o PageFindingsToString(Head(findings)),
                           Tail(findings))

\* Research Step over a Blackboard object: the findings merged into the blackboard
ResearchBlackboard(bb, out) ==
    add_research_findings(add_page_findings(bb, out.page_findings), out.research_findings)

----------------------------------------------------------------------------
(* Pipeline controllers *)

Variants == { "classifier", "evolver", "profiler" }

MAX_INVESTIGATION_ROUNDS_Classifier == 5
MAX_INVESTIGATION_ROUNDS_Evolver == 3
MAX_INVESTIGATION_ROUNDS_Profiler == 3

MAX_INVESTIGATION_ROUNDS(v) ==
    CASE v = "classifier" -> MAX_INVESTIGATION_ROUNDS_Classifier
      [] v = "evolver" -> MAX_INVESTIGATION_ROUNDS_Evolver
      [] v = "profiler" -> MAX_INVESTIGATION_ROUNDS_Profiler

\* `initial_context or ""` (LeadEvolverPipeline); Blackboard() (LeadClassifierPipeline)
InitialBlackboards(v) ==
    IF v = "evolver" THEN { EmptyStr, << "K" >> } ELSE { NewBlackboard }

\* lead_context of a classifier call inside the loop
LoopContext(v, bb) == IF v = "evolver" THEN bb ELSE to_string(bb)

\* lead_context of the classifier call after the loop
FinalContext(v, bb) ==
    IF v = "evolver"
    THEN bb \o << "\n\n[Note: Maximum investigation rounds reached. Make final classification with available information.]" >>
    ELSE to_string(bb)

\* Keyword arguments of the classifier call inside the loop
LoopKeywords(v) ==
    IF v = "evolver" THEN { "lead_context", "ideal_customer_profile", "offering" }
    ELSE { "lead_context" }

\* Keyword arguments of the classifier call after the loop
FinalKeywords(v) ==
    IF v = "evolver" THEN { "lead_context", "ideal_customer_profile", "offering" }
    ELSE { "lead_context", "force_classification" }

\* Whether the research calls sit in try/except
CatchesResearchError(v) == v # "evolver"

\* The blackboard a successful research call leaves in `blackboard`
ResearchReturn(v, bb, out) ==
    IF v = "evolver" THEN ResearcherForward(bb, out.page_findings)
    ELSE ResearchBlackboard(bb, out)

\* the increment left out
IncrementRounds_Skipped(r) == r

\* a round counted twice
IncrementRounds_Twice(r) == r + 2

\* investigation_rounds += 1
IncrementRounds(r) == r + 1

\* The label returned after the loop: `final_classification["lead_quality"] or <default>`
FinalLabel(v, lead_quality) ==
    IF lead_quality # PyNone THEN lead_quality
    ELSE IF v = "evolver" THEN "not_a_fit" ELSE "None"

\* History only: how a classifier call inside the loop ended
ClassifyEvent(c) ==
    IF c.is_final THEN "classify:final"
    ELSE IF Truthy(c.further_investigation) THEN "classify:goal"
    ELSE "classify:no_goal"

\* the returned dict reporting one round too many
ReturnRecord_ExtraRound(v, lead_quality, bb, rounds) ==
    [ lead_quality |-> lead_quality,
      blackboard |-> IF v = "evolver" THEN bb ELSE to_dict(bb),
      investigation_rounds |-> rounds + 1 ]

\* The dict forward() returns
ReturnRecord(v, lead_quality, bb, rounds) ==
    [ lead_quality |-> lead_quality,
      blackboard |-> IF v = "evolver" THEN bb ELSE to_dict(bb),
      investigation_rounds |-> rounds ]

\* the loop left after its first iteration
AfterIteration_AlwaysFinal(v, done) == "final_classification"

\* the loop bound off by one
AfterIteration_OffByOne(v, done) ==
    IF done <= MAX_INVESTIGATION_ROUNDS(v) THEN "classify" ELSE "final_classification"

\* Where control goes when an iteration of `for _ in range(MAX_INVESTIGATION_ROUNDS)` ends
AfterIteration(v, done) ==
    IF done < MAX_INVESTIGATION_ROUNDS(v) THEN "classify" ELSE "final_classification"

NoResult == [ lead_quality |-> "<unset>", investigation_rounds |-> 0 ]

config == << variant, use_system_cache, update_classification, cache >>
\* The judge and the metrics are not part of a pipeline run
call == << arg, ret, model_calls >>
NoCall == /\ arg = PyNone
          /\ ret = PyNone
          /\ model_calls = 0
\* The process-wide state of the scrape service and of the judge singleton, which a
\* pipeline step or a single judge call leaves alone
services == << page_cache, _judge_instance, constructed, threads >>
\* `_judge_instance = None`; the instances constructed are numbered from 1
NoInstance == 0
NoServices == /\ page_cache = << >>
              /\ _judge_instance = NoInstance
              /\ constructed = 0
              /\ threads = << >>
profilerLocals == << output_ready, profile, research_goal >>
classifierLocals == << raw, classification, lastContext >>

\* The blackboard.json a cache directory may hold
CachedDicts ==
    { to_dict(NewBlackboard),
      [ k \in { "research_findings" } |-> << "A" >> ],
      [ k \in { "page_findings" } |-> << "\n", "P" >> ],
      [ k \in { "page_findings" } |-> EmptyStr ],
      to_dict(Blackboard(<< "\n", "P" >>, << "A" >>)) }

Init ==
    /\ variant \in Variants
    /\ use_system_cache \in (IF variant = "profiler" THEN BOOLEAN ELSE { FALSE })
    /\ update_classification \in (IF variant = "profiler" THEN BOOLEAN ELSE { FALSE })
    /\ cache \in (IF variant = "profiler"
                  THEN { {} } \cup { { d } : d \in CachedDicts }
                  ELSE { {} })
    /\ pc = IF variant = "profiler" THEN "load" ELSE "initial_research"
    /\ blackboard \in InitialBlackboards(variant)
    /\ investigation_rounds = 0
    /\ iter = 0
    /\ raw = [ lead_quality |-> PyNone, further_investigation |-> NoneStr ]
    /\ classification = ClassifierForward(PyNone, NoneStr)
    /\ output_ready = FALSE
    /\ profile = NoneStr
    /\ research_goal = NoneStr
    /\ result = NoResult
    /\ error = ""
    /\ trace = << >>
    /\ lastContext = EmptyStr
    /\ failBlackboard = blackboard
    /\ NoCall
    /\ NoServices

\* LeadClassifierPipeline.forward 60-70, LeadEvolverPipeline.forward 63-70
InitialResearch ==
    /\ pc = "initial_research"
    /\ \/ \E out \in ResearchOutputs :
            /\ blackboard' = ResearchReturn(variant, blackboard, out)
            /\ investigation_rounds' = IncrementRounds(investigation_rounds)
            /\ trace' = Append(trace, "research_ok")
            /\ pc' = "classify"
            /\ UNCHANGED << error, failBlackboard >>
       \/ /\ trace' = Append(trace, "research_raise")
          /\ failBlackboard' = blackboard
          /\ pc' = IF CatchesResearchError(variant) THEN "classify" ELSE "raised"
          /\ error' = IF CatchesResearchError(variant) THEN error ELSE "ResearchError"
          /\ UNCHANGED << blackboard, investigation_rounds >>
    /\ UNCHANGED << config, call, services, iter, classifierLocals, profilerLocals, result >>

\* One pass of the loop body up to the research call:
\* LeadClassifierPipeline.forward 73-87, LeadEvolverPipeline.forward 73-92
Classify ==
    /\ pc = "classify"
    /\ \E lq \in LeadQualityOutputs, fi \in FurtherInvestigationOutputs :
        LET c == ClassifierForward(lq, fi) IN
        /\ lastContext' = LoopContext(variant, blackboard)
        /\ IF RaisesTypeError(LoopKeywords(variant))
           THEN /\ pc' = "raised"
                /\ error' = "TypeError"
                /\ trace' = Append(trace, "classify:raise")
                /\ UNCHANGED << raw, classification, result, iter >>
           ELSE /\ raw' = [ lead_quality |-> lq, further_investigation |-> fi ]
                /\ trace' = Append(trace, ClassifyEvent(c))
                /\ classification' = c
                /\ error' = error
                /\ IF c.is_final
                   THEN /\ pc' = "returned"
                        /\ result' = ReturnRecord(variant, c.lead_quality, blackboard,
                                                  investigation_rounds)
                        /\ iter' = iter
                   ELSE IF Truthy(c.further_investigation)
                   THEN /\ pc' = "research"
                        /\ UNCHANGED << result, iter >>
                   ELSE /\ iter' = iter + 1
                        /\ pc' = AfterIteration(variant, iter + 1)
                        /\ result' = result
    /\ UNCHANGED << config, call, services, blackboard, investigation_rounds, profilerLocals, failBlackboard >>

\* The research call of the loop body:
\* LeadClassifierPipeline.forward 88-98, LeadEvolverPipeline.forward 93-99
FollowUpResearch ==
    /\ pc = "research"
    /\ \/ \E out \in ResearchOutputs :
            /\ blackboard' = ResearchReturn(variant, blackboard, out)
            /\ investigation_rounds' = IncrementRounds(investigation_rounds)
            /\ trace' = Append(trace, "research_ok")
            /\ iter' = iter + 1
            /\ pc' = AfterIteration(variant, iter + 1)
            /\ UNCHANGED << error, failBlackboard >>
       \/ /\ trace' = Append(trace, "research_raise")
          /\ failBlackboard' = blackboard
          /\ pc' = IF CatchesResearchError(variant) THEN "final_classification" ELSE "raised"
          /\ error' = IF CatchesResearchError(variant) THEN error ELSE "ResearchError"
          /\ UNCHANGED << blackboard, investigation_rounds, iter >>
    /\ UNCHANGED << config, call, services, classifierLocals, profilerLocals, result >>

\* After the loop: LeadClassifierPipeline.forward 100-111, LeadEvolverPipeline.forward 101-114
FinalClassification ==
    /\ pc = "final_classification"
    /\ \E lq \in LeadQualityOutputs, fi \in FurtherInvestigationOutputs :
        LET c == ClassifierForward(lq, fi) IN
        /\ trace' = Append(trace, "final_classify")
        /\ lastContext' = FinalContext(variant, blackboard)
        /\ IF RaisesTypeError(FinalKeywords(variant))
           THEN /\ pc' = "raised"
                /\ error' = "TypeError"
                /\ UNCHANGED << raw, classification, result >>
           ELSE /\ raw' = [ lead_quality |-> lq, further_investigation |-> fi ]
                /\ classification' = c
                /\ pc' = "returned"
                /\ result' = ReturnRecord(variant, FinalLabel(variant, c.lead_quality),
                                          blackboard, investigation_rounds)
                /\ error' = error
    /\ UNCHANGED << config, call, services, blackboard, investigation_rounds, iter, profilerLocals,
                    failBlackboard >>

----------------------------------------------------------------------------
(* LeadProfilerPipeline.forward *)

\* result.profile of a Profiler Step call
ProfileOutputs == { NoneStr, << "P" >> }

\* result.research_goal of a Profiler Step call
ResearchGoalOutputs ==
    { NoneStr, EmptyStr, << "a", "b", "c", "d", "e" >>, << "a", "b", "c", "d", "e", "f" >> }

\* research_goal is not None and len(str(research_goal)) > 5
NeedsResearch(goal) == goal # NoneStr /\ Len(goal) > 5

\* The starting blackboard
StartingBlackboard(use_cache, files) ==
    IF use_cache THEN load_blackboard_from_cache(files) ELSE NewBlackboard

\* the precondition check left out
MissingBlackboard_Skipped(bb) == FALSE

\* The precondition check: blackboard.to_string() == ""
MissingBlackboard(bb) == to_string(bb) = EmptyStr

\* Where control goes when the profiler loop ends or an iteration of it ends
AfterProfilerIteration(done, ready) ==
    IF done < MAX_INVESTIGATION_ROUNDS("profiler") THEN "profile"
    ELSE IF ready THEN "update" ELSE "final_draft"

\* `break` out of the profiler loop
AfterProfilerBreak(ready) == IF ready THEN "update" ELSE "final_draft"

\* final_classification["lead_quality"] if hasattr(final_classification, "lead_quality") else None:
\* the classifier returns a dict, which has no such attribute
ProfilerLeadQuality(c) == PyNone

ProfilerReturnRecord(lead_quality, pr, goal, bb, rounds) ==
    [ lead_quality |-> lead_quality,
      profile |-> pr,
      research_goal |-> goal,
      blackboard |-> to_dict(bb),
      investigation_rounds |-> rounds ]

\* LeadProfilerPipeline.forward 53-60
LoadBlackboard ==
    /\ pc = "load"
    /\ LET bb == StartingBlackboard(use_system_cache, cache) IN
        /\ blackboard' = bb
        /\ IF MissingBlackboard(bb)
           THEN /\ pc' = "raised"
                /\ error' = "MissingBlackboard"
           ELSE /\ pc' = "profile"
                /\ error' = error
    /\ UNCHANGED << config, call, services, investigation_rounds, iter, classifierLocals, profilerLocals,
                    result, trace, failBlackboard >>

\* LeadProfilerPipeline.forward 65-74, 86-87
ProfilerStep ==
    /\ pc = "profile"
    /\ \E pr \in ProfileOutputs, goal \in ResearchGoalOutputs :
        /\ profile' = pr
        /\ research_goal' = goal
        /\ trace' = Append(trace, "profile")
        /\ IF NeedsResearch(goal)
           THEN /\ pc' = "profile_research"
                /\ UNCHANGED << output_ready, iter >>
           ELSE /\ output_ready' = TRUE
                /\ iter' = iter + 1
                /\ pc' = AfterProfilerIteration(iter + 1, TRUE)
    /\ UNCHANGED << config, call, services, blackboard, investigation_rounds, classifierLocals, result,
                    error, failBlackboard >>

\* LeadProfilerPipeline.forward 75-85
ProfilerResearch ==
    /\ pc = "profile_research"
    /\ \/ \E out \in ResearchOutputs :
            /\ blackboard' = ResearchBlackboard(blackboard, out)
            /\ investigation_rounds' = IncrementRounds(investigation_rounds)
            /\ trace' = Append(trace, "research_ok")
            /\ iter' = iter + 1
            /\ pc' = AfterProfilerIteration(iter + 1, output_ready)
            /\ UNCHANGED failBlackboard
       \/ /\ trace' = Append(trace, "research_raise")
          /\ failBlackboard' = blackboard
          /\ pc' = AfterProfilerBreak(output_ready)
          /\ UNCHANGED << blackboard, investigation_rounds, iter >>
    /\ UNCHANGED << config, call, services, classifierLocals, profilerLocals, result, error >>

\* LeadProfilerPipeline.forward 89-93
FinalDraft ==
    /\ pc = "final_draft"
    /\ \E pr \in ProfileOutputs, goal \in ResearchGoalOutputs :
        /\ profile' = pr
        /\ research_goal' = goal
    /\ trace' = Append(trace, "profile")
    /\ pc' = "update"
    /\ UNCHANGED << config, call, services, blackboard, investigation_rounds, iter, classifierLocals,
                    output_ready, result, error, failBlackboard >>

\* LeadProfilerPipeline.forward 95-112
UpdateClassification ==
    /\ pc = "update"
    /\ IF update_classification
       THEN \E lq \in LeadQualityOutputs, fi \in FurtherInvestigationOutputs :
            LET c == ClassifierForward(lq, fi) IN
            /\ trace' = Append(trace, "final_classify")
            /\ lastContext' = to_string(blackboard)
            /\ IF RaisesTypeError(FinalKeywords(variant))
               THEN /\ pc' = "raised"
                    /\ error' = "TypeError"
                    /\ UNCHANGED << raw, classification, result >>
               ELSE /\ raw' = [ lead_quality |-> lq, further_investigation |-> fi ]
                    /\ classification' = c
                    /\ pc' = "returned"
                    /\ error' = error
                    /\ result' = ProfilerReturnRecord(ProfilerLeadQuality(c), profile,
                                     research_goal, blackboard, investigation_rounds)
       ELSE /\ pc' = "returned"
            /\ result' = ProfilerReturnRecord(PyNone, profile, research_goal, blackboard,
                                              investigation_rounds)
            /\ UNCHANGED << classifierLocals, error, trace >>
    /\ UNCHANGED << config, call, services, blackboard, investigation_rounds, iter, profilerLocals,
                    failBlackboard >>

----------------------------------------------------------------------------

Next ==
    \/ InitialResearch
    \/ Classify
    \/ FollowUpResearch
    \/ FinalClassification
    \/ LoadBlackboard
    \/ ProfilerStep
    \/ ProfilerResearch
    \/ FinalDraft
    \/ UpdateClassification

Spec == Init /\ [][Next]_vars

----------------------------------------------------------------------------
(* The Classification Step on its own: every label and every short text *)

MaxTextLen == 4

Alphabet == { " ", "\n", "n", "o", "e", "N", "O", "E", "g" }

\* The texts of at most MaxTextLen characters, and None
Texts == UNION { [ 1..n -> Alphabet ] : n \in 0..MaxTextLen } \cup { NoneStr }

InitStep ==
    /\ variant = "classifier"
    /\ use_system_cache = FALSE
    /\ update_classification = FALSE
    /\ cache = {}
    /\ pc = "step"
    /\ blackboard = NewBlackboard
    /\ investigation_rounds = 0
    /\ iter = 0
    /\ raw \in [ lead_quality : LeadQualityOutputs, further_investigation : Texts ]
    /\ classification = ClassifierForward(PyNone, NoneStr)
    /\ output_ready = FALSE
    /\ profile = NoneStr
    /\ research_goal = NoneStr
    /\ result = NoResult
    /\ error = ""
    /\ trace = << >>
    /\ lastContext = EmptyStr
    /\ failBlackboard = NewBlackboard
    /\ NoCall
    /\ NoServices

\* LeadClassifierModule.forward 56-78 on the decision call's output `raw`
ApplyClassifier ==
    /\ pc = "step"
    /\ classification' = ClassifierForward(raw.lead_quality, raw.further_investigation)
    /\ pc' = "stepped"
    /\ UNCHANGED << config, call, services, blackboard, investigation_rounds, iter, raw, profilerLocals,
                    result, error, trace, lastContext, failBlackboard >>

NextStep == ApplyClassifier

SpecClassifierStep == InitStep /\ [][NextStep]_vars

----------------------------------------------------------------------------
(* The Blackboard on its own: a sequence of additions, saves and loads *)

MaxAdditions == 3

PF2 == [ url |-> "u2", title |-> "t2", summary |-> "s2", page_findings |-> "f2",
         interesting_links |-> "l2", current_goal |-> "g2" ]

\* What add_page_findings is called with: no finding, one, or several
FindingsLists == { << >>, << PF1 >>, << PF2 >>, << PF1, PF2 >> }

\* What add_research_findings is called with: None, "", or a text
ResearchTexts == { NoneStr, EmptyStr, << "A" >>, << "B", "b" >> }

PriorResearchMarker == "\n\nPrior Research:\n"

InitBlackboard ==
    /\ variant = "profiler"
    /\ use_system_cache = TRUE
    /\ update_classification = FALSE
    /\ cache \in { {} } \cup { { d } : d \in CachedDicts }
    /\ pc = "blackboard"
    /\ blackboard = load_blackboard_from_cache(cache)
    /\ investigation_rounds = 0
    /\ iter = 0
    /\ raw = [ lead_quality |-> PyNone, further_investigation |-> NoneStr ]
    /\ classification = ClassifierForward(PyNone, NoneStr)
    /\ output_ready = FALSE
    /\ profile = NoneStr
    /\ research_goal = NoneStr
    /\ result = NoResult
    /\ error = ""
    /\ trace = << >>
    /\ lastContext = EmptyStr
    /\ failBlackboard = NewBlackboard
    /\ NoCall
    /\ NoServices

\* What a blackboard call leaves alone
BlackboardFrame ==
    UNCHANGED << config, services, pc, investigation_rounds, raw, classification, output_ready,
                 profile, research_goal, result, error, lastContext, failBlackboard,
                 ret, model_calls >>

\* blackboard.add_page_findings(findings); trace records the additions in order
AddPageFindings ==
    /\ pc = "blackboard"
    /\ iter < MaxAdditions
    /\ \E findings \in FindingsLists :
          /\ blackboard' = add_page_findings(blackboard, findings)
          /\ arg' = [ op |-> "add_page_findings", value |-> findings ]
    /\ trace' = Append(trace, arg')
    /\ iter' = iter + 1
    /\ BlackboardFrame

\* blackboard.add_research_findings(research_findings)
AddResearchFindings ==
    /\ pc = "blackboard"
    /\ iter < MaxAdditions
    /\ \E text \in ResearchTexts :
          /\ blackboard' = add_research_findings(blackboard, text)
          /\ arg' = [ op |-> "add_research_findings", value |-> text ]
    /\ trace' = Append(trace, arg')
    /\ iter' = iter + 1
    /\ BlackboardFrame

\* Blackboard.from_dict(blackboard.to_dict()): the blackboard is saved and loaded again
SaveAndLoad ==
    /\ pc = "blackboard"
    /\ blackboard' = from_dict(to_dict(blackboard))
    /\ arg' = [ op |-> "from_dict", value |-> to_dict(blackboard) ]
    /\ UNCHANGED << iter, trace >>
    /\ BlackboardFrame

NextBlackboard == AddPageFindings \/ AddResearchFindings \/ SaveAndLoad

SpecBlackboard == InitBlackboard /\ [][NextBlackboard]_vars

----------------------------------------------------------------------------
(* The judge and the metrics (src/LeadEvolver/judge) *)

\* A judge or metric call runs outside any pipeline: the pipeline's variables stay idle
NoPipeline ==
    /\ variant = "classifier"
    /\ use_system_cache = FALSE
    /\ update_classification = FALSE
    /\ cache = {}
    /\ blackboard = NewBlackboard
    /\ investigation_rounds = 0
    /\ iter = 0
    /\ raw = [ lead_quality |-> PyNone, further_investigation |-> NoneStr ]
    /\ classification = ClassifierForward(PyNone, NoneStr)
    /\ output_ready = FALSE
    /\ profile = NoneStr
    /\ research_goal = NoneStr
    /\ result = NoResult
    /\ error = ""
    /\ trace = << >>
    /\ lastContext = EmptyStr
    /\ failBlackboard = NewBlackboard

PipelineFrame ==
    UNCHANGED << config, services, blackboard, investigation_rounds, iter, classifierLocals,
                 profilerLocals, result, error, trace, failBlackboard >>

\* Scores are kept in tenths: 10 is 1.0, 5 is 0.5, 0 is 0.0

\* compute_classification_score that gives partial credit to every disagreement
compute_classification_score_AlwaysPartial(predicted, expected) ==
    IF predicted = expected THEN 10 ELSE 5

\* judge/metrics.py compute_classification_score
compute_classification_score(predicted, expected) ==
    LET fit_classes == { "strong_fit", "weak_fit" }
    IN  IF predicted = expected THEN 10
        ELSE IF predicted \in fit_classes /\ expected \in fit_classes THEN 5
        ELSE 0

\* judge/classifier/metrics.py compute_classification_score (the second copy)
classifier_compute_classification_score(predicted, expected) ==
    LET fit_classes == { "strong_fit", "weak_fit" }
    IN  IF predicted = expected THEN 10
        ELSE IF predicted \in fit_classes /\ expected \in fit_classes THEN 5
        ELSE 0

\* What reaches the score as predicted / expected: the three labels, and strings that
\* are none of them (the pipeline's "None", labels that were not normalised)
ScoreInputs == Labels \cup { "None", "", "Strong Fit", "weak_fit ", "not a fit" }

InitScore ==
    /\ NoPipeline
    /\ NoServices
    /\ pc = "score"
    /\ arg \in [ predicted : ScoreInputs, expected : ScoreInputs ]
    /\ ret = PyNone
    /\ model_calls = 0

\* compute_classification_score(predicted, expected), by each of the two copies
ComputeClassificationScore ==
    /\ pc = "score"
    /\ ret' = [ metrics |-> compute_classification_score(arg.predicted, arg.expected),
                classifier_metrics |->
                    classifier_compute_classification_score(arg.predicted, arg.expected) ]
    /\ pc' = "scored"
    /\ UNCHANGED << arg, model_calls >>
    /\ PipelineFrame

NextScore == ComputeClassificationScore

SpecScore == InitScore /\ [][NextScore]_vars

\* Python's `needle in text` for two strings
StrIn(needle, text) ==
    \E i \in 1..(Len(text) + 1) :
        /\ i + Len(needle) - 1 <= Len(text)
        /\ \A k \in 1..Len(needle) : text[i + k - 1] = needle[k]

\* "".join(parts)
RECURSIVE StrJoin(_)
StrJoin(parts) ==
    IF parts = << >> THEN EmptyStr ELSE Head(parts) \o StrJoin(Tail(parts))

\* The texts made of at most n of the given fragments
FragmentTexts(fragments, n) ==
    { StrJoin(parts) : parts \in UNION { [ 1..k -> fragments ] : k \in 0..n } }

\* The label words are atomic chunks of characters: "strong_fit" is "strong", "_", "fit"
STRONG_FIT == << "strong", "_", "fit" >>
WEAK_FIT == << "weak", "_", "fit" >>
NOT_A_FIT == << "not", "_", "a", "_", "fit" >>

\* LLMJudge.judge that looks for weak_fit before strong_fit
ParseJudgeResponse_WeakFirst(content) ==
    LET raw_response == Lower(Strip(content))
    IN  IF StrIn(WEAK_FIT, raw_response) THEN "weak_fit"
        ELSE IF StrIn(STRONG_FIT, raw_response) THEN "strong_fit"
        ELSE "not_a_fit"

\* LLMJudge.judge 127-138: the label read from the content of the model's response
ParseJudgeResponse(content) ==
    LET raw_response == Lower(Strip(content))
    IN  IF StrIn(STRONG_FIT, raw_response) THEN "strong_fit"
        ELSE IF StrIn(WEAK_FIT, raw_response) THEN "weak_fit"
        ELSE IF StrIn(NOT_A_FIT, raw_response) THEN "not_a_fit"
        ELSE "not_a_fit"

MaxJudgeFragments == 3

\* Pieces a judge response is made of: the labels (one in other case), parts of
\* labels, white space and other text
JudgeFragments ==
    { STRONG_FIT, << "WEAK", "_", "FIT" >>, NOT_A_FIT,
      << "strong" >>, << "_" >>, << "fit" >>, << " " >>, << "x" >> }

JudgeResponses == FragmentTexts(JudgeFragments, MaxJudgeFragments)

InitJudge ==
    /\ NoPipeline
    /\ NoServices
    /\ pc = "judge"
    /\ arg = [ proposed_classification |-> "strong_fit", content |-> NoneStr ]
    /\ ret = PyNone
    /\ model_calls = 0

\* LLMJudge.judge: one request to the model, whose response content is any text,
\* then the parse
Judge ==
    /\ pc = "judge"
    /\ model_calls' = model_calls + 1
    /\ \E content \in JudgeResponses :
          /\ arg' = [ arg EXCEPT !.content = content ]
          /\ ret' = ParseJudgeResponse(content)
    /\ pc' = "judged"
    /\ PipelineFrame

NextJudge == Judge

SpecJudge == InitJudge /\ [][NextJudge]_vars

----------------------------------------------------------------------------
(* ProfileJudge: reading the score out of the judge model's response
   (src/LeadEvolver/judge/profiler/judge.py).  A response is a sequence of
   characters; a word the patterns look for ("TOTAL:", "ACCURACY:", ...) is one
   atomic chunk. *)

Digits == { "0", "1", "2", "3", "4", "5", "6", "7", "8", "9" }

DigitValue(c) ==
    CASE c = "0" -> 0 [] c = "1" -> 1 [] c = "2" -> 2 [] c = "3" -> 3 [] c = "4" -> 4
      [] c = "5" -> 5 [] c = "6" -> 6 [] c = "7" -> 7 [] c = "8" -> 8 [] c = "9" -> 9

Min(a, b) == IF a <= b THEN a ELSE b
Max(a, b) == IF a >= b THEN a ELSE b

\* \s* from position i: the position after the white space
RECURSIVE SkipSpaces(_, _)
SkipSpaces(s, i) ==
    IF i <= Len(s) /\ s[i] \in Whitespace THEN SkipSpaces(s, i + 1) ELSE i

\* \d+ from position i, greedy: the position after the digits (i when there is none)
RECURSIVE SkipDigits(_, _)
SkipDigits(s, i) ==
    IF i <= Len(s) /\ s[i] \in Digits THEN SkipDigits(s, i + 1) ELSE i

\* int(digits).  Python integers have no upper limit; every caller treats all
\* values above 100 alike, so the value is kept at 1000 from there on.
RECURSIVE IntOf(_)
IntOf(digits) ==
    IF digits = << >> THEN 0
    ELSE Min(1000, 10 * IntOf(SubSeq(digits, 1, Len(digits) - 1))
                   + DigitValue(digits[Len(digits)]))

\* The literal occurs at position i (re.IGNORECASE when ignorecase)
LiteralAt(s, i, literal, ignorecase) ==
    /\ i + Len(literal) - 1 <= Len(s)
    /\ \A k \in 1..Len(literal) :
          (IF ignorecase THEN LowerChar(s[i + k - 1]) ELSE s[i + k - 1]) = literal[k]

NoMatch == [ matched |-> FALSE, n |-> 0 ]

\* (\d+)\s*/\s*100 matched at position i; n is group 1
FractionOf100At(s, i) ==
    LET k == SkipDigits(s, i)
        l == SkipSpaces(s, k)
        m == SkipSpaces(s, l + 1)
    IN  IF /\ k > i
           /\ l <= Len(s) /\ s[l] = "/"
           /\ LiteralAt(s, m, << "1", "0", "0" >>, FALSE)
        THEN [ matched |-> TRUE, n |-> IntOf(SubSeq(s, i, k - 1)) ]
        ELSE NoMatch

\* TOTAL:\s*(\d+)\s*/\s*100 with re.IGNORECASE, matched at position i
TotalAt(s, i) ==
    IF LiteralAt(s, i, << "total:" >>, TRUE)
    THEN FractionOf100At(s, SkipSpaces(s, i + 1))
    ELSE NoMatch

\* (\d+)\s*$ matched at position i
TrailingIntegerAt(s, i) ==
    LET k == SkipDigits(s, i)
    IN  IF k > i /\ SkipSpaces(s, k) = Len(s) + 1
        THEN [ matched |-> TRUE, n |-> IntOf(SubSeq(s, i, k - 1)) ]
        ELSE NoMatch

\* The keys of the breakdown: the six categories in lower case
Categories == { "accuracy", "succinct", "relevant", "complete", "contact", "persona" }

\* max_scores
max_scores == [ c \in Categories |-> IF c = "accuracy" THEN 60 ELSE 10 ]

\* profile_response_format: the denominator of each "CATEGORY: [score]/max" line
profile_response_format == [ c \in Categories |-> IF c = "accuracy" THEN 60 ELSE 10 ]

\* profile_rubric: the weight in percent of each section of the rubric
profile_rubric == [ c \in Categories |-> IF c = "accuracy" THEN 60 ELSE 10 ]

\* "Profile scoring 100 total points." and "TOTAL: [total]/100"
TotalPoints == 100

\* sum() of the values of a breakdown
SumOfCategories(breakdown) ==
    breakdown["accuracy"] + breakdown["succinct"] + breakdown["relevant"]
        + breakdown["complete"] + breakdown["contact"] + breakdown["persona"]

\* The text "CATEGORY:" of a category, in lower case
CategoryLiteral(c) ==
    CASE c = "accuracy" -> << "accuracy:" >>
      [] c = "succinct" -> << "succinct:" >>
      [] c = "relevant" -> << "relevant:" >>
      [] c = "complete" -> << "complete:" >>
      [] c = "contact" -> << "contact:" >>
      [] c = "persona" -> << "persona:" >>

\* CATEGORY:\s*(\d+)\s*/\s*\d+ with re.IGNORECASE, matched at position i
CategoryAt(s, i, c) ==
    LET j == SkipSpaces(s, i + 1)
        k == SkipDigits(s, j)
        l == SkipSpaces(s, k)
        m == SkipSpaces(s, l + 1)
    IN  IF /\ LiteralAt(s, i, CategoryLiteral(c), TRUE)
           /\ k > j
           /\ l <= Len(s) /\ s[l] = "/"
           /\ SkipDigits(s, m) > m
        THEN [ matched |-> TRUE, n |-> IntOf(SubSeq(s, j, k - 1)) ]
        ELSE NoMatch

\* The patterns: the three of _parse_score, and one for each category
PatternAt(pattern, s, i) ==
    CASE pattern = "TOTAL: N/100" -> TotalAt(s, i)
      [] pattern = "N/100" -> FractionOf100At(s, i)
      [] pattern = "N$" -> TrailingIntegerAt(s, i)
      [] OTHER -> CategoryAt(s, i, pattern)

\* re.search: the match at the leftmost position where the pattern matches
Search(pattern, s) ==
    IF \E i \in 1..Len(s) : PatternAt(pattern, s, i).matched
    THEN PatternAt(pattern, s,
                   CHOOSE i \in 1..Len(s) :
                       /\ PatternAt(pattern, s, i).matched
                       /\ \A j \in 1..(i - 1) : ~ PatternAt(pattern, s, j).matched)
    ELSE NoMatch

\* _parse_score that tries "N/100" before "TOTAL: N/100"
parse_score_FractionFirst(response) ==
    LET fraction == Search("N/100", response)
        trailing == Search("N$", response)
    IN  IF fraction.matched THEN Min(100, Max(0, fraction.n))
        ELSE IF trailing.matched /\ 0 <= trailing.n /\ trailing.n <= 100 THEN trailing.n
        ELSE 50

\* ProfileJudge._parse_score
parse_score(response) ==
    LET total == Search("TOTAL: N/100", response)
        fraction == Search("N/100", response)
        trailing == Search("N$", response)
    IN  IF total.matched THEN Min(100, Max(0, total.n))
        ELSE IF fraction.matched THEN Min(100, Max(0, fraction.n))
        ELSE IF trailing.matched /\ 0 <= trailing.n /\ trailing.n <= 100 THEN trailing.n
        ELSE 50

MaxScoreFragments == 5

\* Pieces a judge response is made of
ScoreFragments ==
    { << "TOTAL:" >>, << " " >>, << "8", "7" >>, << "1", "5", "0" >>,
      << "/", "1", "0", "0" >>, << "/" >>, << "1", "0", "0" >>, << "x" >> }

ScoreResponses == FragmentTexts(ScoreFragments, MaxScoreFragments)

InitParseScore ==
    /\ NoPipeline
    /\ NoServices
    /\ pc = "parse_score"
    /\ arg \in ScoreResponses
    /\ ret = 0
    /\ model_calls = 0

\* self._parse_score(raw_response)
ParseScore ==
    /\ pc = "parse_score"
    /\ ret' = parse_score(arg)
    /\ pc' = "parsed_score"
    /\ UNCHANGED << arg, model_calls >>
    /\ PipelineFrame

NextParseScore == ParseScore

SpecParseScore == InitParseScore /\ [][NextParseScore]_vars

\* _parse_breakdown that does not clamp
parse_breakdown_NoClamp(response) ==
    [ c \in Categories |->
        LET match == Search(c, response)
        IN  IF match.matched THEN match.n ELSE 0 ]

\* ProfileJudge._parse_breakdown
parse_breakdown(response) ==
    [ c \in Categories |->
        LET match == Search(c, response)
        IN  IF match.matched THEN Min(max_scores[c], Max(0, match.n)) ELSE 0 ]

MaxBreakdownFragments == 4

\* Pieces a judge response is made of
BreakdownFragments ==
    { << "ACCURACY:", " ", "7" >>, << "ACCURACY:", "7", "0" >>,
      << "persona:", "7" >>, << "persona:", " ", "7", "0", " " >>,
      << "/", "6", "0" >>, << "/", " ", "1", "0" >>, << " " >>, << "x" >> }

BreakdownResponses == FragmentTexts(BreakdownFragments, MaxBreakdownFragments)

InitParseBreakdown ==
    /\ NoPipeline
    /\ NoServices
    /\ pc = "parse_breakdown"
    /\ arg \in BreakdownResponses
    /\ ret = [ c \in Categories |-> 0 ]
    /\ model_calls = 0

\* self._parse_breakdown(raw_response)
ParseBreakdown ==
    /\ pc = "parse_breakdown"
    /\ ret' = parse_breakdown(arg)
    /\ pc' = "parsed_breakdown"
    /\ UNCHANGED << arg, model_calls >>
    /\ PipelineFrame

NextParseBreakdown == ParseBreakdown

SpecParseBreakdown == InitParseBreakdown /\ [][NextParseBreakdown]_vars

\* `not profile or len(profile.strip()) < 10` without the strip
TooShort_NoStrip(profile_) ==
    \/ profile_ = NoneStr
    \/ profile_ = EmptyStr
    \/ Len(profile_) < 10

\* ProfileJudge.judge 163, judge_with_breakdown 200:
\* `not profile or len(profile.strip()) < 10`
TooShort(profile_) ==
    \/ profile_ = NoneStr
    \/ profile_ = EmptyStr
    \/ Len(Strip(profile_)) < 10

MaxProfileLen == 10

\* The profiles handed to the judge: None, and every text of letters and blanks
Profiles == { NoneStr } \cup UNION { [ 1..n -> { "a", " " } ] : n \in 0..MaxProfileLen }

\* What the judge model may answer
ProfileJudgeContents ==
    { << " ", "ACCURACY:", " ", "7", "/", "6", "0", " ", "TOTAL:", " ", "8", "7", "/", "1", "0", "0", "\n" >>,
      << "x", " ", "1", "5", "0", "/", "1", "0", "0" >>,
      << "ACCURACY:", "6", "0", "/", "6", "0", "\n", "succinct:", "1", "0", "/", "1", "0", "\n",
         "relevant:", "1", "0", "/", "1", "0", "\n", "complete:", "1", "0", "/", "1", "0", "\n",
         "contact:", "1", "0", "/", "1", "0", "\n", "persona:", "1", "0", "/", "1", "0", "\n",
         "TOTAL:", " ", "1", "0", "0", "/", "1", "0", "0" >>,
      << "x" >> }

\* The breakdown judge_with_breakdown returns without asking the model
TooShortBreakdown ==
    [ total |-> 0,
      breakdown |-> [ c \in Categories |-> 0 ],
      raw_response |-> << "Profile is empty or too short" >> ]

InitProfileJudge ==
    /\ NoPipeline
    /\ NoServices
    /\ pc = "profile_judge"
    /\ arg \in [ profile : Profiles ]
    /\ ret = PyNone
    /\ model_calls = 0

\* ProfileJudge.judge(profile, blackboard)
JudgeProfile ==
    /\ pc = "profile_judge"
    /\ IF TooShort(arg.profile)
       THEN /\ ret' = 0
            /\ UNCHANGED model_calls
       ELSE /\ model_calls' = model_calls + 1
            /\ \E content \in ProfileJudgeContents :
                  LET raw_response == Strip(content)
                  IN  ret' = parse_score(raw_response)
    /\ pc' = "judged_profile"
    /\ UNCHANGED arg
    /\ PipelineFrame

\* ProfileJudge.judge_with_breakdown(profile, blackboard)
JudgeWithBreakdown ==
    /\ pc = "profile_judge"
    /\ IF TooShort(arg.profile)
       THEN /\ ret' = TooShortBreakdown
            /\ UNCHANGED model_calls
       ELSE /\ model_calls' = model_calls + 1
            /\ \E content \in ProfileJudgeContents :
                  LET raw_response == Strip(content)
                  IN  ret' = [ total |-> parse_score(raw_response),
                               breakdown |-> parse_breakdown(raw_response),
                               raw_response |-> raw_response ]
    /\ pc' = "judged_with_breakdown"
    /\ UNCHANGED arg
    /\ PipelineFrame

NextProfileJudge == JudgeProfile \/ JudgeWithBreakdown

SpecProfileJudge == InitProfileJudge /\ [][NextProfileJudge]_vars

----------------------------------------------------------------------------
(* Metrics: judge/metrics.py, judge/classifier/metrics.py, judge/profiler/metrics.py *)

\* A field that an example or a prediction does not have
Missing == "<missing>"
MissingText == << "<missing>" >>

\* The value of a blackboard field: absent, a text, or a dict
BlackboardField(type, str_, dict_) == [ type |-> type, str |-> str_, dict |-> dict_ ]
NoBlackboardField == BlackboardField("missing", EmptyStr, << >>)
EmptyDict == BlackboardField("dict", EmptyStr, << >>)
EmptyText == BlackboardField("str", EmptyStr, << >>)

\* Examples and predictions: None, a dict, or an object with attributes
ObjectKinds == { "dict", "object" }

Examples ==
    { [ kind |-> "none", icp_match |-> Missing, context |-> MissingText ] }
    \cup [ kind : ObjectKinds,
           icp_match : Labels \cup { PyNone, Missing },
           context : { MissingText, EmptyStr, << "ctx" >> } ]

BlackboardFields ==
    { NoBlackboardField, EmptyText, EmptyDict,
      BlackboardField("str", << "bb" >>, << >>),
      BlackboardField("dict", EmptyStr, to_dict(Blackboard(<< "p" >>, << "r" >>))) }

NonePrediction ==
    [ kind |-> "none", lead_quality |-> Missing, rationale |-> MissingText,
      blackboard |-> NoBlackboardField, profile |-> MissingText ]

\* Predictions of the classification pipelines
ClassifierPredictions ==
    { NonePrediction }
    \cup [ kind : ObjectKinds,
           lead_quality : Labels \cup { PyNone, Missing },
           rationale : { MissingText, << "why" >> },
           blackboard : BlackboardFields,
           profile : { MissingText } ]

\* Predictions of the profiler pipeline
ProfilerPredictions ==
    { NonePrediction }
    \cup [ kind : ObjectKinds,
           lead_quality : { Missing },
           rationale : { MissingText },
           blackboard : BlackboardFields,
           profile : { MissingText, NoneStr, << "a", "b", "c" >>,
                       << "a", "b", "c", "d", "e", "f", "g", "h", "i", "j" >> } ]

\* What the judge does when it is asked: construction fails, the request fails, or
\* it answers (a label for the classification judges, a score for the profile judge)
JudgeBehaviour(kind, label, score) == [ kind |-> kind, label |-> label, score |-> score ]

ClassifierJudgeBehaviours ==
    { JudgeBehaviour("init_raises", "not_a_fit", 0), JudgeBehaviour("raises", "not_a_fit", 0) }
    \cup { JudgeBehaviour("returns", l, 0) : l \in Labels }

ProfileJudgeBehaviours ==
    { JudgeBehaviour("init_raises", "not_a_fit", 0), JudgeBehaviour("raises", "not_a_fit", 0) }
    \cup { JudgeBehaviour("returns", "not_a_fit", n) : n \in { 0, 87, 100 } }

\* hasattr / dict.get / getattr with a default, and safe_get: the value of a label field
LabelField(obj, key) ==
    IF obj.kind = "none" \/ obj[key] = Missing THEN PyNone ELSE obj[key]

\* the same for a text field, None when absent
TextField(obj, key) ==
    IF obj.kind = "none" \/ obj[key] = MissingText THEN NoneStr ELSE obj[key]

\* the same for the blackboard field, with the default of the caller
BlackboardOf(prediction, default) ==
    IF prediction.kind = "none" \/ prediction.blackboard.type = "missing"
    THEN default ELSE prediction.blackboard

\* `not lead_context`
Falsy(field) ==
    \/ field.type = "missing"
    \/ field.type = "str" /\ field.str = EmptyStr
    \/ field.type = "dict" /\ DOMAIN field.dict = {}

\* What a metric call did: raised or returned a score (in hundredths), and the
\* keyword arguments of every judge.judge call it made
MetricResult(raised, score, judge_inputs) ==
    [ raised |-> raised, score |-> score, judge_inputs |-> judge_inputs ]

Raised(judge_inputs) == MetricResult(TRUE, 0, judge_inputs)
Returned(score, judge_inputs) == MetricResult(FALSE, score, judge_inputs)

\* Scores of compute_classification_score in hundredths
Hundredths(tenths) == 10 * tenths

\* The keyword arguments of judge.judge
JudgeInputs(lead_context, proposed_classification, proposed_rationale) ==
    [ lead_context |-> lead_context,
      proposed_classification |-> proposed_classification,
      proposed_rationale |-> proposed_rationale ]

\* judge/metrics.py 85-91: the context of the example when the prediction has no blackboard
ExampleContext(example, lead_context) ==
    IF example.kind # "none" /\ example.context # MissingText
    THEN BlackboardField("str", example.context, << >>)
    ELSE IF example.kind = "dict" THEN EmptyText
    ELSE lead_context

\* a training metric that scores against the human label when the example has one
metrics_training_metric_SeesLabel(example, prediction, judge) ==
    IF judge.kind = "init_raises" THEN Raised(<< >>)
    ELSE
      LET blackboard_ == BlackboardOf(prediction, EmptyText)
          lead_context == IF Falsy(blackboard_) THEN ExampleContext(example, blackboard_)
                          ELSE blackboard_
          predicted == LabelField(prediction, "lead_quality")
          rationale == TextField(prediction, "rationale")
          inputs == JudgeInputs(lead_context, predicted, rationale)
          expected == IF LabelField(example, "icp_match") # PyNone
                      THEN LabelField(example, "icp_match") ELSE judge.label
      IN  IF predicted = PyNone \/ Falsy(lead_context) THEN Returned(0, << >>)
          ELSE IF judge.kind = "raises" THEN Raised(<< inputs >>)
          ELSE Returned(Hundredths(compute_classification_score(predicted, expected)),
                        << inputs >>)

\* judge/metrics.py training_metric
metrics_training_metric(example, prediction, judge) ==
    IF judge.kind = "init_raises" THEN Raised(<< >>)
    ELSE
      LET blackboard_ == BlackboardOf(prediction, EmptyText)
          lead_context == IF Falsy(blackboard_) THEN ExampleContext(example, blackboard_)
                          ELSE blackboard_
          predicted == LabelField(prediction, "lead_quality")
          rationale == TextField(prediction, "rationale")
          inputs == JudgeInputs(lead_context, predicted, rationale)
      IN  IF predicted = PyNone \/ Falsy(lead_context) THEN Returned(0, << >>)
          ELSE IF judge.kind = "raises" THEN Raised(<< inputs >>)
          ELSE Returned(Hundredths(compute_classification_score(predicted, judge.label)),
                        << inputs >>)

\* judge/metrics.py test_set_metric
metrics_test_set_metric(example, prediction) ==
    LET ground_truth == LabelField(example, "icp_match")
        predicted == LabelField(prediction, "lead_quality")
    IN  IF ground_truth = PyNone THEN Returned(0, << >>)
        ELSE IF predicted = PyNone THEN Returned(0, << >>)
        ELSE Returned(Hundredths(compute_classification_score(predicted, ground_truth)), << >>)

\* "Convert blackboard to string" of the classifier and profiler metrics
BlackboardStr(blackboard_data) ==
    IF blackboard_data.type = "dict" THEN to_string(from_dict(blackboard_data.dict))
    ELSE blackboard_data.str

\* judge/classifier/metrics.py training_metric: every exception becomes 0.0
classifier_training_metric(example, prediction, judge) ==
    IF judge.kind = "init_raises" THEN Returned(0, << >>)
    ELSE
      LET lead_quality == LabelField(prediction, "lead_quality")
          rationale == TextField(prediction, "rationale")
          blackboard_data == BlackboardOf(prediction, EmptyDict)
          blackboard_str == BlackboardStr(blackboard_data)
          inputs == JudgeInputs(BlackboardField("str", blackboard_str, << >>),
                                lead_quality, rationale)
      IN  IF lead_quality = PyNone THEN Returned(0, << >>)
          ELSE IF judge.kind = "raises" THEN Returned(0, << inputs >>)
          ELSE Returned(Hundredths(classifier_compute_classification_score(lead_quality,
                                                                           judge.label)),
                        << inputs >>)

\* judge/classifier/metrics.py test_set_metric
classifier_test_set_metric(example, prediction) ==
    LET ground_truth == LabelField(example, "icp_match")
        predicted == LabelField(prediction, "lead_quality")
    IN  IF ground_truth = PyNone THEN Returned(0, << >>)
        ELSE IF predicted = PyNone THEN Returned(0, << >>)
        ELSE Returned(Hundredths(classifier_compute_classification_score(predicted,
                                                                         ground_truth)), << >>)

\* judge/profiler/metrics.py training_metric: the judge's 0..100 over 100.0
profiler_training_metric(example, prediction, judge) ==
    IF judge.kind = "init_raises" THEN Returned(0, << >>)
    ELSE
      LET profile_ == TextField(prediction, "profile")
          blackboard_data == BlackboardOf(prediction, EmptyDict)
          blackboard_str == BlackboardStr(blackboard_data)
          inputs == [ profile |-> profile_, blackboard |-> blackboard_str ]
      IN  IF profile_ = NoneStr \/ Len(Strip(profile_)) < 10 THEN Returned(0, << >>)
          ELSE IF judge.kind = "raises" THEN Returned(0, << inputs >>)
          ELSE Returned(judge.score, << inputs >>)

InitMetrics ==
    /\ NoPipeline
    /\ NoServices
    /\ pc = "metric"
    /\ arg \in [ module : { "judge.metrics", "judge.classifier.metrics" },
                 metric : { "training_metric", "test_set_metric" },
                 example : Examples,
                 prediction : ClassifierPredictions,
                 judge : ClassifierJudgeBehaviours ]
              \cup [ module : { "judge.profiler.metrics" },
                     metric : { "training_metric" },
                     example : Examples,
                     prediction : ProfilerPredictions,
                     judge : ProfileJudgeBehaviours ]
    /\ ret = PyNone
    /\ model_calls = 0

\* metric(example, prediction) as the evaluator calls it
MetricOf(a) ==
    CASE a.module = "judge.metrics" /\ a.metric = "training_metric" ->
            metrics_training_metric(a.example, a.prediction, a.judge)
      [] a.module = "judge.metrics" /\ a.metric = "test_set_metric" ->
            metrics_test_set_metric(a.example, a.prediction)
      [] a.module = "judge.classifier.metrics" /\ a.metric = "training_metric" ->
            classifier_training_metric(a.example, a.prediction, a.judge)
      [] a.module = "judge.classifier.metrics" /\ a.metric = "test_set_metric" ->
            classifier_test_set_metric(a.example, a.prediction)
      [] a.module = "judge.profiler.metrics" ->
            profiler_training_metric(a.example, a.prediction, a.judge)

EvaluateMetric ==
    /\ pc = "metric"
    /\ ret' = MetricOf(arg)
    /\ pc' = IF ret'.raised THEN "metric_raised" ELSE "metric_returned"
    /\ model_calls' = model_calls + Len(ret'.judge_inputs)
    /\ UNCHANGED arg
    /\ PipelineFrame

NextMetrics == EvaluateMetric

SpecMetrics == InitMetrics /\ [][NextMetrics]_vars

----------------------------------------------------------------------------
(* The research tools: search and scrape (researcher_module.py, firecrawl_service.py) *)

\* scrape(url, max_length=10000, ...)
max_length == 10000

\* service.search(query=query, num_results=10)
num_results == 10

\* A text of which only the number of characters matters: `body` characters of page
\* content followed by a literal
Markdown(body, literal) == [ body |-> body, literal |-> literal ]

TruncationMarker == "\n\n[Content truncated...]"
PdfMessage == "PDF scraping is temporarily unavailable."

\* len() of a literal
LiteralLen(literal) ==
    CASE literal = "" -> 0
      [] literal = TruncationMarker -> 24
      [] literal = PdfMessage -> 40

\* len(markdown)
MarkdownLen(markdown) == markdown.body + LiteralLen(markdown.literal)

\* The dataclass ScrapedPage (error defaults to None)
ScrapedPage(url, markdown, title, success, error_) ==
    [ url |-> url, markdown |-> markdown, title |-> title, success |-> success,
      error |-> error_ ]

\* str.strip(chars)
RECURSIVE StripChars(_, _)
StripChars(s, chars) ==
    IF s # << >> /\ Head(s) \in chars THEN StripChars(Tail(s), chars)
    ELSE IF s # << >> /\ s[Len(s)] \in chars
         THEN StripChars(SubSeq(s, 1, Len(s) - 1), chars)
    ELSE s

\* clean_llm_outputted_url: quotes stripped, and the first string of a JSON
\* {"anyOf": [...]} object taken in place of the object
clean_llm_outputted_url(url) ==
    LET clean_url == StripChars(StripChars(Strip(url), { "\"" }), { "'" })
    IN  IF clean_url # << >> /\ Head(clean_url) = "{\"anyOf\": [\""
        THEN StripChars(StripChars(<< clean_url[2] >>, { "\"" }), { "'" })
        ELSE clean_url

\* The URLs the research agent asks for
Urls ==
    { << "a.com" >>, << "A.COM" >>, << "a.com", ".PDF" >>, << "\"", "a.com", "\"" >>,
      << "{\"anyOf\": [\"", "a.com", "\", null]}" >> }

\* _get_cache_key: the file name is a hash of the normalised URL
_get_cache_key(url) == Lower(Strip(url))

\* The content of a cache file: the JSON of a page, or text that is not JSON
\* (a write that was cut short)
CacheFile(valid, data) == [ valid |-> valid, data |-> data ]
InvalidJson == CacheFile(FALSE, ScrapedPage(<< >>, Markdown(0, ""), PyNone, FALSE, PyNone))

\* cache_path.unlink
Unlink(files, key) == [ k \in DOMAIN files \ { key } |-> files[k] ]

\* _load_from_cache: the page (hit), and the cache directory afterwards
_load_from_cache(files, url, use_cache) ==
    LET key == _get_cache_key(url)
        miss == [ hit |-> FALSE, page |-> InvalidJson.data, files |-> files ]
    IN  IF ~use_cache THEN miss
        ELSE IF key \notin DOMAIN files THEN miss
        ELSE IF ~files[key].valid THEN [ miss EXCEPT !.files = Unlink(files, key) ]
        ELSE IF Lower(files[key].data.url) = Lower(url)
             THEN [ hit |-> TRUE, page |-> files[key].data, files |-> files ]
        ELSE miss

\* _save_to_cache: a failing write is reported and swallowed
_save_to_cache(files, page, use_cache, write_ok) ==
    IF ~use_cache \/ ~write_ok THEN files
    ELSE [ k \in DOMAIN files \cup { _get_cache_key(page.url) } |->
             IF k = _get_cache_key(page.url) THEN CacheFile(TRUE, page) ELSE files[k] ]

\* What the provider does with a request: raises, or returns a page of n characters
ProviderOutcome(raises, chars, title) == [ raises |-> raises, chars |-> chars, title |-> title ]

ProviderOutcomes ==
    { ProviderOutcome(TRUE, 0, PyNone) }
    \cup { ProviderOutcome(FALSE, n, t) : n \in { 0, max_length, max_length + 1 },
                                          t \in { PyNone, "t" } }

\* url.lower().endswith(".pdf")
EndsWithPdf(url) == url # << >> /\ Lower(url)[Len(url)] = ".pdf"

\* FirecrawlService.scrape: the page returned, the cache directory afterwards, and
\* the number of requests sent to the provider
FirecrawlScrape(files, url, use_cache, provider, write_ok) ==
    LET cached_page == _load_from_cache(files, url, use_cache)
        clean == clean_llm_outputted_url(url)
        markdown == IF provider.chars > max_length
                    THEN Markdown(max_length, TruncationMarker)
                    ELSE Markdown(provider.chars, "")
        page == IF EndsWithPdf(clean)
                THEN ScrapedPage(clean, Markdown(0, PdfMessage), PyNone, FALSE, PyNone)
                ELSE IF provider.raises
                THEN ScrapedPage(clean, Markdown(0, ""), PyNone, FALSE, "provider error")
                ELSE ScrapedPage(clean, markdown, provider.title, TRUE, PyNone)
    IN  IF cached_page.hit
        THEN [ page |-> cached_page.page, files |-> cached_page.files, hit |-> TRUE,
               requests |-> 0 ]
        ELSE [ page |-> page,
               files |-> _save_to_cache(cached_page.files, page, use_cache, write_ok),
               hit |-> FALSE,
               requests |-> IF EndsWithPdf(clean) THEN 0 ELSE 1 ]

\* The tool scrape(url): what re-enters the reasoning context
scrape(url, page) ==
    IF ~page.success
    THEN [ text |-> "Error scraping {url}: {result.error}", url |-> url,
           error |-> page.error, title |-> PyNone, content |-> Markdown(0, "") ]
    ELSE [ text |-> "{title_str}Content:\n{result.markdown}", url |-> url,
           error |-> PyNone, title |-> page.title, content |-> page.markdown ]

MaxToolCalls == 3

InitTools ==
    /\ NoPipeline
    /\ NoCall
    /\ pc = "tools"
    /\ page_cache \in { << >>, [ k \in { << "a.com" >> } |-> InvalidJson ] }
    /\ _judge_instance = NoInstance
    /\ constructed = 0
    /\ threads = << >>

ToolsFrame ==
    UNCHANGED << config, pc, blackboard, investigation_rounds, classifierLocals,
                 profilerLocals, result, error, trace, failBlackboard,
                 _judge_instance, constructed, threads >>

\* One scrape tool call of the research agent: FirecrawlService().scrape(url=url)
ScrapeTool ==
    /\ pc = "tools"
    /\ iter < MaxToolCalls
    /\ \E url \in Urls, provider \in ProviderOutcomes, write_ok \in BOOLEAN :
          LET r == FirecrawlScrape(page_cache, url, TRUE, provider, write_ok)
          IN  /\ arg' = [ tool |-> "scrape", url |-> url ]
              /\ ret' = [ page |-> r.page, hit |-> r.hit, output |-> scrape(url, r.page) ]
              /\ page_cache' = r.files
              /\ model_calls' = model_calls + r.requests
    /\ iter' = iter + 1
    /\ ToolsFrame

\* One search tool call: at most num_results results come back, one entry for each
SearchTool ==
    /\ pc = "tools"
    /\ iter < MaxToolCalls
    /\ \E results \in 0..num_results :
          /\ arg' = [ tool |-> "search", url |-> << >> ]
          /\ ret' = [ results |-> results,
                      output |-> IF results = 0 THEN "No search results found."
                                 ELSE "Position {r.position}: ..." ]
    /\ iter' = iter + 1
    /\ UNCHANGED << page_cache, model_calls >>
    /\ ToolsFrame

NextTools == ScrapeTool \/ SearchTool

SpecTools == InitTools /\ [][NextTools]_vars

----------------------------------------------------------------------------
(* Label normalisation (extract_judge_examples.py, dataset.py) *)

\* The keys of CSV_TO_INTERNAL
StrongFitDisplay == << "Strong", " ", "fit" >>
WeakFitDisplay == << "Weak", " ", "fit" >>
NotAFitDisplay == << "Not", " ", "a", " ", "fit" >>

\* CSV_TO_INTERNAL looked up by the lower-cased value
normalize_classification_IgnoreCase(value) ==
    IF Lower(value) = Lower(StrongFitDisplay) THEN << "strong_fit" >>
    ELSE IF Lower(value) = Lower(WeakFitDisplay) THEN << "weak_fit" >>
    ELSE IF Lower(value) = Lower(NotAFitDisplay) THEN << "not_a_fit" >>
    ELSE value

\* normalize_classification: CSV_TO_INTERNAL.get(value, value)
normalize_classification(value) ==
    IF value = StrongFitDisplay THEN << "strong_fit" >>
    ELSE IF value = WeakFitDisplay THEN << "weak_fit" >>
    ELSE IF value = NotAFitDisplay THEN << "not_a_fit" >>
    ELSE value

MaxLabelFragments == 2

\* Pieces the icp_match cell of a CSV row is made of
LabelFragments ==
    { << "Strong", " " >>, << "STRONG", " " >>, << "strong", " " >>, << "Weak", " " >>,
      << "weak", " " >>, << "Not", " ", "a", " " >>, << "fit" >>, << "Fit" >>, << "FIT" >>,
      << "maybe" >>, << "strong_fit" >>, << " " >> }

IcpMatchCells == FragmentTexts(LabelFragments, MaxLabelFragments)

InitNormalize ==
    /\ NoPipeline
    /\ NoServices
    /\ pc = "normalize"
    /\ arg \in [ icp_match : IcpMatchCells ]
    /\ ret = PyNone
    /\ model_calls = 0

\* to_dspy_examples: icp_match=normalize_classification(row['icp_match'])
NormalizeClassification ==
    /\ pc = "normalize"
    /\ ret' = [ icp_match |-> normalize_classification(arg.icp_match) ]
    /\ pc' = "normalized"
    /\ UNCHANGED << arg, model_calls >>
    /\ PipelineFrame

NextNormalize == NormalizeClassification

SpecNormalize == InitNormalize /\ [][NextNormalize]_vars

----------------------------------------------------------------------------
(* get_judge called by the evaluator threads of the optimizer (judge/profiler/metrics.py) *)

MaxThreads == 3

\* The threads in which the optimizer evaluates training_metric
EvaluatorThreads == 1..MaxThreads

InitThreads ==
    /\ NoPipeline
    /\ NoCall
    /\ pc = "threads"
    /\ page_cache = << >>
    /\ _judge_instance = NoInstance
    /\ constructed = 0
    /\ threads = [ t \in EvaluatorThreads |-> [ pc |-> "get_judge", judge |-> NoInstance ] ]

ThreadsFrame ==
    UNCHANGED << config, pc, blackboard, investigation_rounds, iter, classifierLocals,
                 profilerLocals, result, error, trace, failBlackboard, call, page_cache >>

\* `if _judge_instance is None:` read by thread t
CheckInstance(t) ==
    /\ threads[t].pc = "get_judge"
    /\ threads' = [ threads EXCEPT ![t].pc =
                      IF _judge_instance = NoInstance THEN "construct" ELSE "return" ]
    /\ UNCHANGED << _judge_instance, constructed >>
    /\ ThreadsFrame

\* `ProfileJudge()` evaluated by thread t: a new instance, not yet stored
ConstructJudge(t) ==
    /\ threads[t].pc = "construct"
    /\ constructed' = constructed + 1
    /\ threads' = [ threads EXCEPT ![t] = [ pc |-> "assign", judge |-> constructed + 1 ] ]
    /\ UNCHANGED _judge_instance
    /\ ThreadsFrame

\* `_judge_instance = <the new instance>` stored by thread t
AssignInstance(t) ==
    /\ threads[t].pc = "assign"
    /\ _judge_instance' = threads[t].judge
    /\ threads' = [ threads EXCEPT ![t].pc = "return" ]
    /\ UNCHANGED constructed
    /\ ThreadsFrame

\* `return _judge_instance`, bound to `judge` in training_metric
ReturnInstance(t) ==
    /\ threads[t].pc = "return"
    /\ threads' = [ threads EXCEPT ![t] = [ pc |-> "judging", judge |-> _judge_instance ] ]
    /\ UNCHANGED << _judge_instance, constructed >>
    /\ ThreadsFrame

NextThreads ==
    \E t \in EvaluatorThreads :
        \/ CheckInstance(t)
        \/ ConstructJudge(t)
        \/ AssignInstance(t)
        \/ ReturnInstance(t)

SpecThreads == InitThreads /\ [][NextThreads]_vars

----------------------------------------------------------------------------
(* Properties *)

Last(seq) == seq[Len(seq)]

Count(seq, e) == Cardinality({ k \in 1..Len(seq) : seq[k] = e })

Terminated == pc \in { "returned", "raised" }

\* The research / classify controllers (LeadClassifierPipeline, LeadEvolverPipeline)
ClassifyController == variant \in { "classifier", "evolver" }

LoopClassifyEvents == { "classify:final", "classify:goal", "classify:no_goal", "classify:raise" }

\* Classifier calls made inside the loop so far
LoopClassifications == Cardinality({ k \in 1..Len(trace) : trace[k] \in LoopClassifyEvents })

\* Every research call so far succeeded and every classification inside the loop was
\* non-final with a goal
AlwaysAsksForMore ==
    \A k \in 1..Len(trace) : trace[k] \in { "research_ok", "classify:goal", "final_classify" }

\* A follow-up research call (any research call after the first step) raised
FollowUpResearchRaised ==
    \E k \in 2..Len(trace) : trace[k] = "research_raise"

\* C1: round budget termination.  With every research call succeeding and every
\* classification inside the loop non-final with a goal, a finished run of
\* LeadClassifierPipeline.forward has returned a record with a non-null label after at
\* most MAX_INVESTIGATION_ROUNDS + 1 classifier calls.
C1_RoundBudgetTermination ==
    (variant = "classifier" /\ Terminated /\ AlwaysAsksForMore)
        => /\ pc = "returned"
           /\ LoopClassifications + Count(trace, "final_classify")
                  <= MAX_INVESTIGATION_ROUNDS(variant) + 1
           /\ result.lead_quality # PyNone

\* C2: every finished run of a classification controller that got to the classification
\* after the loop has returned one of the three labels, not_a_fit when that
\* classification produced none; and every returned label is one of the three.
C2_ReturnedLabelIsOneOfThree ==
    ClassifyController
        => /\ pc = "returned" => result.lead_quality \in Labels
           /\ (Terminated /\ Count(trace, "final_classify") > 0)
                  => /\ pc = "returned"
                     /\ classification.lead_quality = PyNone
                            => result.lead_quality = "not_a_fit"

\* Whether a text reads "none" when case is ignored
ReadsNone(s) ==
    /\ Len(s) = 4
    /\ s[1] \in { "n", "N" } /\ s[2] \in { "o", "O" }
    /\ s[3] \in { "n", "N" } /\ s[4] \in { "e", "E" }

\* C3 as stated: is_final iff the label is non-null and further_investigation is null,
\* empty, or "none" compared case-insensitively.
C3_FinalityAsStated ==
    pc = "stepped" =>
        (classification.is_final <=>
            /\ raw.lead_quality # PyNone
            /\ \/ raw.further_investigation = NoneStr
               \/ raw.further_investigation = EmptyStr
               \/ ReadsNone(raw.further_investigation))

\* C3 amended: is_final iff the label is non-null and further_investigation is null,
\* empty or whitespace only, or "none" compared case-insensitively (unstripped).
C3_Finality ==
    pc = "stepped" =>
        (classification.is_final <=>
            /\ raw.lead_quality # PyNone
            /\ \/ raw.further_investigation = NoneStr
               \/ \A k \in 1..Len(raw.further_investigation) :
                      raw.further_investigation[k] \in Whitespace
               \/ ReadsNone(raw.further_investigation))

\* C3 witness: a label with a whitespace-only further_investigation was taken as final
C3_Witness ==
    /\ pc = "stepped"
    /\ raw.lead_quality \in Labels
    /\ raw.further_investigation = << " ", " " >>
    /\ classification.is_final

\* C4: a classifier call made with force_classification = true gives a result that asks
\* for no further investigation and is final exactly when it carries a label.
C4_ForcedNeverAsksForMore ==
    (Count(trace, "final_classify") > 0 /\ "force_classification" \in FinalKeywords(variant))
        => /\ pc = "returned"
           /\ ~Truthy(classification.further_investigation)
           /\ classification.is_final <=> (classification.lead_quality # PyNone)

\* C5: after a follow-up research call raised, a finished run has returned a record,
\* made exactly one more call (the classification after the loop, on the blackboard the
\* failed call was given), and reports as many rounds as research calls succeeded.
C5_FollowUpFailureStillReturns ==
    (ClassifyController /\ Terminated /\ FollowUpResearchRaised)
        => /\ pc = "returned"
           /\ Count(trace, "research_raise") = 1
           /\ Count(trace, "final_classify") = 1
           /\ Last(trace) = "final_classify"
           /\ trace[Len(trace) - 1] = "research_raise"
           /\ lastContext = FinalContext(variant, failBlackboard)
           /\ result.investigation_rounds = Count(trace, "research_ok")

\* C6: when the initial research call raises, the error is not propagated, the loop's
\* first classification sees the blackboard of before the call, and a finished run has
\* returned a record.
C6_InitialFailureNotFatal ==
    (ClassifyController /\ Len(trace) >= 1 /\ trace[1] = "research_raise")
        => /\ error # "ResearchError"
           /\ Len(trace) = 2 => lastContext = LoopContext(variant, failBlackboard)
           /\ Terminated => pc = "returned"

\* C7 as stated: every returned record has investigation_rounds >= 1.
C7_RoundsAtLeastOneAsStated ==
    (ClassifyController /\ pc = "returned") => result.investigation_rounds >= 1

\* C7 amended: a returned record has investigation_rounds >= 1 exactly when some research
\* call of the run succeeded, which includes every run whose initial research
\* succeeded; a run whose research calls all raised returns 0.
C7_RoundsAtLeastOne ==
    (ClassifyController /\ pc = "returned")
        => /\ result.investigation_rounds >= 1 <=> Count(trace, "research_ok") >= 1
           /\ trace[1] = "research_ok" => result.investigation_rounds >= 1

\* C7 witness: a record returned with no round after the initial research raised
C7_Witness ==
    /\ pc = "returned"
    /\ ClassifyController
    /\ trace[1] = "research_raise"
    /\ result.investigation_rounds = 0

C9_DegenerateIterationIsCounted ==
    /\ [](ClassifyController
            => /\ iter <= MAX_INVESTIGATION_ROUNDS(variant)
               /\ LoopClassifications <= MAX_INVESTIGATION_ROUNDS(variant))
    /\ [][(ClassifyController /\ Len(trace') = Len(trace) + 1
             /\ Last(trace') = "classify:no_goal")
            => /\ blackboard' = blackboard
               /\ investigation_rounds' = investigation_rounds
               /\ iter' = iter + 1
               /\ pc' \in { "classify", "final_classification" }]_vars

\* C9 witness: a classifier that never gives a goal or a verdict used up the whole budget
C9_Witness ==
    /\ variant = "classifier"
    /\ pc = "final_classification"
    /\ iter = MAX_INVESTIGATION_ROUNDS(variant)
    /\ Count(trace, "classify:no_goal") = MAX_INVESTIGATION_ROUNDS(variant)

\* No research is on file for the lead: the cache is off, misses, or holds two empty texts
NoExistingResearch ==
    \/ ~use_system_cache
    \/ cache = {}
    \/ \A d \in cache : /\ DictGet(d, "page_findings", EmptyStr) = EmptyStr
                        /\ DictGet(d, "research_findings", EmptyStr) = EmptyStr

\* C10: with no existing research, LeadProfilerPipeline.forward raises at once, before
\* any Profiler, Research or Classification Step is called.
C10_ProfilerPrecondition ==
    (variant = "profiler" /\ NoExistingResearch /\ pc # "load")
        => /\ pc = "raised"
           /\ error = "MissingBlackboard"
           /\ trace = << >>

C10_Witness ==
    /\ variant = "profiler"
    /\ use_system_cache
    /\ cache = {}
    /\ pc = "raised"
    /\ error = "MissingBlackboard"


\* needle occurs in text as one contiguous run
Contains(text, needle) ==
    \E i \in 0..Len(text) :
        /\ i + Len(needle) <= Len(text)
        /\ SubSeq(text, i + 1, i + Len(needle)) = needle

\* C11: the blackboard is append-only: whatever a field held before a call on
\* the blackboard is still contained, intact and contiguous, in that field
\* after the call.
C11_AppendOnly ==
    [][ /\ Contains(blackboard'.page_findings, blackboard.page_findings)
        /\ Contains(blackboard'.research_findings, blackboard.research_findings) ]_vars

\* Both kinds of addition were made twice over content that was already there
C11_Witness ==
    /\ pc = "blackboard"
    /\ Contains(blackboard.page_findings, PageFindingsToString(PF1))
    /\ Contains(blackboard.page_findings, PageFindingsToString(PF2))
    /\ Contains(blackboard.research_findings, << PriorResearchMarker >>)
    /\ iter >= 2

\* A call of add_research_findings with a text that is not None and not ""
IsResearchAddition(call_) ==
    /\ call_.op = "add_research_findings"
    /\ call_.value # NoneStr
    /\ call_.value # EmptyStr

\* The texts add_research_findings has added so far, oldest first
ResearchAdditions ==
    LET calls == SelectSeq(trace, IsResearchAddition)
    IN  [ k \in 1..Len(calls) |-> calls[k].value ]

\* The research findings the blackboard started with
LoadedResearch == load_blackboard_from_cache(cache).research_findings

\* The pieces of a text that the "Prior Research:" marker separates, in order
RECURSIVE SplitAtMarker(_)
SplitAtMarker(text) ==
    IF \E i \in 1..Len(text) : text[i] = PriorResearchMarker
    THEN LET i == CHOOSE j \in 1..Len(text) :
                      /\ text[j] = PriorResearchMarker
                      /\ \A k \in 1..(j - 1) : text[k] # PriorResearchMarker
         IN  << SubSeq(text, 1, i - 1) >> \o SplitAtMarker(SubSeq(text, i + 1, Len(text)))
    ELSE << text >>

\* The additions newest first, then what the blackboard started with
NewestFirst ==
    LET n == Len(ResearchAdditions)
    IN  [ k \in 1..n |-> ResearchAdditions[n + 1 - k] ]
        \o (IF LoadedResearch = EmptyStr THEN << >> ELSE << LoadedResearch >>)

\* C12: add_research_findings(B) on a blackboard whose research findings A are
\* not empty yields B, then the "Prior Research:" marker, then A; so after n
\* additions the research findings are the added texts newest first, each
\* separated from the next by the marker.
C12_NewestResearchFirst ==
    /\ [] ( pc = "blackboard" =>
              IF blackboard.research_findings = EmptyStr
              THEN NewestFirst = << >>
              ELSE SplitAtMarker(blackboard.research_findings) = NewestFirst )
    /\ [][ ( /\ pc = "blackboard"
             /\ arg'.op = "add_research_findings"
             /\ arg'.value # NoneStr
             /\ arg'.value # EmptyStr
             /\ blackboard.research_findings # EmptyStr )
           => blackboard'.research_findings
                = arg'.value \o << PriorResearchMarker >> \o blackboard.research_findings ]_vars

\* Two different texts were added to research findings that were loaded non-empty
C12_Witness ==
    /\ pc = "blackboard"
    /\ LoadedResearch # EmptyStr
    /\ Len(ResearchAdditions) >= 2
    /\ ResearchAdditions[1] # ResearchAdditions[2]
    /\ Len(SplitAtMarker(blackboard.research_findings)) = 3

\* The findings add_page_findings has been given so far, in the order of the calls
RECURSIVE FindingsOf(_)
FindingsOf(calls) ==
    IF calls = << >> THEN << >>
    ELSE (IF Head(calls).op = "add_page_findings" THEN Head(calls).value ELSE << >>)
         \o FindingsOf(Tail(calls))

AddedFindings == FindingsOf(trace)

\* The page findings the blackboard started with
LoadedPages == load_blackboard_from_cache(cache).page_findings

\* The canonical string of each added finding, in the order of the additions
AddedEntries ==
    [ k \in 1..Len(AddedFindings) |-> PageFindingsToString(AddedFindings[k]) ]

RECURSIVE ConcatAll(_)
ConcatAll(texts) ==
    IF texts = << >> THEN EmptyStr ELSE Head(texts) \o ConcatAll(Tail(texts))

RECURSIVE JoinWith(_, _)
JoinWith(texts, separator) ==
    IF texts = << >> THEN EmptyStr
    ELSE IF Len(texts) = 1 THEN texts[1]
    ELSE texts[1] \o << separator >> \o JoinWith(Tail(texts), separator)

\* C13 as stated: the page findings are the earlier content and the canonical
\* strings of the added findings in chronological order, with the separator
\* "\n\n---\n\n" between one and the next.
C13_DashSeparatorAsStated ==
    pc = "blackboard" =>
        blackboard.page_findings
          = JoinWith((IF LoadedPages = EmptyStr THEN << >> ELSE << LoadedPages >>)
                     \o AddedEntries, "\n\n---\n\n")

\* C13: adding page findings Y to a blackboard whose page findings are X yields
\* X before Y: the page findings are the earlier content followed, in the order
\* of the additions, by a newline and the canonical string of each finding
\* (which ends with an empty line); there is no "---" separator.
C13_ChronologicalPages ==
    pc = "blackboard" =>
        /\ blackboard.page_findings
             = LoadedPages
               \o ConcatAll([ k \in 1..Len(AddedEntries) |-> << "\n" >> \o AddedEntries[k] ])
        /\ ~ Contains(blackboard.page_findings, << "\n\n---\n\n" >>)

\* Two different findings were added, in two calls, to page findings loaded non-empty
C13_Witness ==
    /\ pc = "blackboard"
    /\ LoadedPages # EmptyStr
    /\ Len(AddedFindings) >= 2
    /\ AddedFindings[1] # AddedFindings[2]
    /\ \E i, j \in 1..Len(trace) :
          /\ i < j
          /\ trace[i].op = "add_page_findings" /\ Len(trace[i].value) = 1
          /\ trace[j].op = "add_page_findings" /\ Len(trace[j].value) = 1

\* The dict the blackboard was loaded from (an empty dict when there was no file)
LoadedDict == IF cache = {} THEN << >> ELSE CHOOSE d \in cache : TRUE

\* C14: for every reachable blackboard b, from_dict(to_dict(b)).to_string() equals
\* b.to_string(); and from_dict accepts a mapping with either key missing: the
\* missing field is "", the other one is the mapping's value.
C14_DictRoundTrip ==
    pc = "blackboard" =>
        /\ to_string(from_dict(to_dict(blackboard))) = to_string(blackboard)
        /\ trace = << >> /\ cache # {} =>
              /\ blackboard.page_findings
                   = (IF "page_findings" \in DOMAIN LoadedDict
                      THEN LoadedDict["page_findings"] ELSE EmptyStr)
              /\ blackboard.research_findings
                   = (IF "research_findings" \in DOMAIN LoadedDict
                      THEN LoadedDict["research_findings"] ELSE EmptyStr)

\* A blackboard loaded from a dict without page findings was filled, saved and loaded
C14_Witness ==
    /\ pc = "blackboard"
    /\ cache # {}
    /\ "page_findings" \notin DOMAIN LoadedDict
    /\ trace # << >>
    /\ arg.op = "from_dict"
    /\ blackboard.page_findings # EmptyStr
    /\ Contains(blackboard.research_findings, << PriorResearchMarker >>)

\* C15: add_page_findings with an empty sequence and add_research_findings with
\* an empty or otherwise falsy text leave both fields unchanged, and each add
\* operation changes only its own field.
C15_EmptyAdditionsAndFrame ==
    [][ /\ pc = "blackboard" /\ arg'.op = "add_page_findings"
          => /\ blackboard'.research_findings = blackboard.research_findings
             /\ Len(arg'.value) = 0 => blackboard' = blackboard
        /\ pc = "blackboard" /\ arg'.op = "add_research_findings"
          => /\ blackboard'.page_findings = blackboard.page_findings
             /\ arg'.value \in { NoneStr, EmptyStr } => blackboard' = blackboard ]_vars

\* An empty list, None and "" were each added to a blackboard with content in both fields
C15_Witness ==
    /\ pc = "blackboard"
    /\ LoadedPages # EmptyStr
    /\ LoadedResearch # EmptyStr
    /\ Len(trace) = 3
    /\ \E i \in 1..3 : trace[i].op = "add_page_findings" /\ Len(trace[i].value) = 0
    /\ \E i \in 1..3 : trace[i].op = "add_research_findings" /\ trace[i].value = NoneStr
    /\ \E i \in 1..3 : trace[i].op = "add_research_findings" /\ trace[i].value = EmptyStr
    /\ blackboard = load_blackboard_from_cache(cache)

\* C16: the classification score is 1.0 when predicted and expected labels are
\* equal, 0.5 when they are the two distinct members of {strong_fit, weak_fit},
\* and 0.0 when exactly one of them is not_a_fit; it is always one of 0.0, 0.5
\* and 1.0; and the two copies of the function agree (scores in tenths).
C16_ScoreTable ==
    pc = "scored" =>
        /\ arg.predicted = arg.expected => ret.metrics = 10
        /\ { arg.predicted, arg.expected } = { "strong_fit", "weak_fit" } => ret.metrics = 5
        /\ ( /\ arg.predicted \in Labels /\ arg.expected \in Labels
             /\ (arg.predicted = "not_a_fit") # (arg.expected = "not_a_fit") )
           => ret.metrics = 0
        /\ ret.metrics \in { 0, 5, 10 }
        /\ ret.classifier_metrics = ret.metrics

\* strong_fit was scored against weak_fit
C16_Witness ==
    /\ pc = "scored"
    /\ arg = [ predicted |-> "strong_fit", expected |-> "weak_fit" ]
    /\ ret.metrics = 5

\* needle (in lower case) occurs in text when the case of text is ignored
OccursIgnoringCase(text, needle) ==
    \E i \in 0..Len(text) :
        /\ i + Len(needle) <= Len(text)
        /\ \A k \in 1..Len(needle) : LowerChar(text[i + k]) = needle[k]

\* C17: LLMJudge.judge returns strong_fit if the response contains "strong_fit"
\* (whatever its case), otherwise weak_fit if it contains "weak_fit", otherwise
\* not_a_fit (whether it contains "not_a_fit" or nothing recognisable); the
\* result is always one of the three labels.
C17_JudgeParsePriority ==
    pc = "judged" =>
        /\ ret = ( IF OccursIgnoringCase(arg.content, STRONG_FIT) THEN "strong_fit"
                   ELSE IF OccursIgnoringCase(arg.content, WEAK_FIT) THEN "weak_fit"
                   ELSE "not_a_fit" )
        /\ ret \in Labels

\* The response names all three labels, weak_fit in capitals and first
C17_Witness ==
    /\ pc = "judged"
    /\ arg.content = << "WEAK", "_", "FIT" >> \o NOT_A_FIT \o STRONG_FIT
    /\ ret = "strong_fit"

\* C19: _parse_score takes the N of the first "TOTAL: N/100" (in any case); when
\* there is none, the N of the first "N/100"; when there is none either, the
\* integer the response ends with (accepted when it is at most 100); and
\* otherwise 50.  An N above 100 is clamped to 100, so the score is always an
\* integer between 0 and 100.
C19_ParseScoreOrder ==
    pc = "parsed_score" =>
        LET total == Search("TOTAL: N/100", arg)
            fraction == Search("N/100", arg)
            trailing == Search("N$", arg)
        IN  /\ ret \in 0..100
            /\ total.matched => ret = Min(100, total.n)
            /\ ~ total.matched /\ fraction.matched => ret = Min(100, fraction.n)
            /\ ~ total.matched /\ ~ fraction.matched /\ trailing.matched /\ trailing.n <= 100
                  => ret = trailing.n
            /\ ~ total.matched /\ ~ fraction.matched /\ ~ trailing.matched => ret = 50
            \* "TOTAL: 150/100" gives 100
            /\ arg = << "TOTAL:", " ", "1", "5", "0", "/", "1", "0", "0" >> => ret = 100
            \* "xTOTAL:87/100x" and "TOTAL:87 / 100" give 87
            /\ arg = << "x", "TOTAL:", "8", "7", "/", "1", "0", "0", "x" >> => ret = 87
            /\ arg = << "TOTAL:", "8", "7", " ", "/", " ", "1", "0", "0" >> => ret = 87
            \* "87/100TOTAL:150/100" gives 100: the TOTAL pattern is tried first
            /\ arg = << "8", "7", "/", "1", "0", "0", "TOTAL:", "1", "5", "0", "/", "1", "0", "0" >>
                  => ret = 100
            \* "150/100 87/100" gives 100: the first "N/100"
            /\ arg = << "1", "5", "0", "/", "1", "0", "0", " ", "8", "7", "/", "1", "0", "0" >>
                  => ret = 100
            \* "TOTAL: 87" gives 87 and "TOTAL:/100" gives 100: the integer at the end
            /\ arg = << "TOTAL:", " ", "8", "7" >> => ret = 87
            /\ arg = << "TOTAL:", "/", "1", "0", "0" >> => ret = 100
            \* "x", "87/x" and "x150" give 50
            /\ arg \in { << "x" >>, << "8", "7", "/", "x" >>, << "x", "1", "5", "0" >> }
                  => ret = 50

\* "87/100TOTAL:150/100" was parsed: an earlier "N/100", and a TOTAL above 100
C19_Witness ==
    /\ pc = "parsed_score"
    /\ arg = << "8", "7", "/", "1", "0", "0", "TOTAL:", "1", "5", "0", "/", "1", "0", "0" >>
    /\ ret = 100

\* "CATEGORY: N/max" at position i, the denominator being the category's maximum
CategoryOfMaxAt(s, i, c) ==
    LET j == SkipSpaces(s, i + 1)
        k == SkipDigits(s, j)
        l == SkipSpaces(s, k)
        m == SkipSpaces(s, l + 1)
        e == SkipDigits(s, m)
    IN  IF /\ LiteralAt(s, i, CategoryLiteral(c), TRUE)
           /\ k > j
           /\ l <= Len(s) /\ s[l] = "/"
           /\ e > m
           /\ IntOf(SubSeq(s, m, e - 1)) = max_scores[c]
        THEN [ matched |-> TRUE, n |-> IntOf(SubSeq(s, j, k - 1)) ]
        ELSE NoMatch

\* The first "CATEGORY: N/max" of category c in the text
FirstOfMax(s, c) ==
    IF \E i \in 1..Len(s) : CategoryOfMaxAt(s, i, c).matched
    THEN CategoryOfMaxAt(s, CHOOSE i \in 1..Len(s) :
                                /\ CategoryOfMaxAt(s, i, c).matched
                                /\ \A j \in 1..(i - 1) : ~ CategoryOfMaxAt(s, j, c).matched,
                         c)
    ELSE NoMatch

\* C20 as stated: the breakdown has exactly the six categories, and each value
\* is the N of the first "CATEGORY: N/max" of its category (max being 60 for
\* accuracy and 10 for the others) clamped to [0, max], and 0 when there is none.
C20_BreakdownAsStated ==
    pc = "parsed_breakdown" =>
        /\ DOMAIN ret = Categories
        /\ \A c \in Categories :
              LET first == FirstOfMax(arg, c)
              IN  ret[c] = (IF first.matched THEN Min(max_scores[c], first.n) ELSE 0)

\* C20: the breakdown has exactly the six categories accuracy, succinct,
\* relevant, complete, contact, persona; each value is the N of the first
\* "CATEGORY: N/D" of its category, D being any integer, clamped to [0, max]
\* (max 60 for accuracy, 10 for the others), and 0 when there is none.
C20_Breakdown ==
    pc = "parsed_breakdown" =>
        /\ DOMAIN ret = { "accuracy", "succinct", "relevant", "complete", "contact", "persona" }
        /\ \A c \in DOMAIN ret :
              LET first == Search(c, arg)
                  max == IF c = "accuracy" THEN 60 ELSE 10
              IN  /\ ret[c] \in 0..max
                  /\ first.matched /\ first.n <= max => ret[c] = first.n
                  /\ first.matched /\ first.n > max => ret[c] = max
                  /\ ~ first.matched => ret[c] = 0
        \* "ACCURACY:70/60persona:7/ 10" gives accuracy 60 and persona 7
        /\ arg = << "ACCURACY:", "7", "0", "/", "6", "0", "persona:", "7", "/", " ", "1", "0" >>
              => ret["accuracy"] = 60 /\ ret["persona"] = 7
        \* "ACCURACY: 7/60ACCURACY:70/60" gives accuracy 7: the first occurrence
        /\ arg = << "ACCURACY:", " ", "7", "/", "6", "0", "ACCURACY:", "7", "0", "/", "6", "0" >>
              => ret["accuracy"] = 7
        \* "ACCURACY: 7/ 10" gives accuracy 7: the denominator is not compared with 60
        /\ arg = << "ACCURACY:", " ", "7", "/", " ", "1", "0" >> => ret["accuracy"] = 7
        \* "persona: 70 /60" gives persona 10, "ACCURACY: 7x/60" gives accuracy 0
        /\ arg = << "persona:", " ", "7", "0", " ", "/", "6", "0" >> => ret["persona"] = 10
        /\ arg = << "ACCURACY:", " ", "7", "x", "/", "6", "0" >> => ret["accuracy"] = 0

\* "ACCURACY:70/60persona:7/ 10" was parsed: one value clamped, one kept, four absent
C20_Witness ==
    /\ pc = "parsed_breakdown"
    /\ arg = << "ACCURACY:", "7", "0", "/", "6", "0", "persona:", "7", "/", " ", "1", "0" >>
    /\ ret["accuracy"] = 60
    /\ ret["persona"] = 7
    /\ ret["contact"] = 0

\* The number of characters of a text that are not white space
NonWhitespaceCount(text) == Cardinality({ k \in 1..Len(text) : text[k] \notin Whitespace })

\* The length of a text from its first to its last character that is not white space
StrippedLength(text) ==
    LET solid == { k \in 1..Len(text) : text[k] \notin Whitespace }
    IN  IF solid = {} THEN 0
        ELSE (CHOOSE k \in solid : \A j \in solid : j <= k)
             - (CHOOSE k \in solid : \A j \in solid : j >= k) + 1

\* None, or a text
NoProfile == arg.profile = NoneStr

\* C18 as stated: for every profile with fewer than 10 characters that are not
\* white space, wherever its white space is, judge returns 0 and makes no call
\* to the model.
C18_ShortCircuitAsStated ==
    pc = "judged_profile" /\ (NoProfile \/ NonWhitespaceCount(arg.profile) < 10)
        => ret = 0 /\ model_calls = 0

\* C18: for every profile that is None, empty, or shorter than 10 characters
\* once its leading and trailing white space is removed (white space inside the
\* profile counts), judge returns 0 and judge_with_breakdown returns a total of
\* 0 with six zero categories, and neither makes a call to the model.
C18_ShortCircuit ==
    /\ pc = "judged_profile" /\ (NoProfile \/ StrippedLength(arg.profile) < 10)
         => ret = 0 /\ model_calls = 0
    /\ pc = "judged_with_breakdown" /\ (NoProfile \/ StrippedLength(arg.profile) < 10)
         => /\ ret.total = 0
            /\ \A c \in Categories : ret.breakdown[c] = 0
            /\ model_calls = 0

\* A profile of ten characters, six of them letters, with blanks around and inside
C18_Witness ==
    /\ pc = "judged_profile"
    /\ arg.profile = << " ", "a", "a", " ", "a", "a", " ", "a", "a", " " >>
    /\ ret = 0
    /\ model_calls = 0

\* C21: the six category maxima of the breakdown parser sum to exactly 100 and
\* equal the maxima of the rubric and of the response format, so the sum of
\* the parsed category scores of a breakdown never exceeds 100.
C21_MaximaSumTo100 ==
    /\ SumOfCategories(max_scores) = TotalPoints
    /\ max_scores = profile_response_format
    /\ max_scores = profile_rubric
    /\ pc = "judged_with_breakdown" => SumOfCategories(ret.breakdown) <= TotalPoints

MetricDone == pc \in { "metric_returned", "metric_raised" }

\* C22: training_metric and test_set_metric never raise, for any example and
\* prediction (dict, attribute object or None) and any failure of the judge; they
\* return 0.0 when the prediction has no lead_quality, and test_set_metric returns
\* 0.0 when the example has no ground truth.
C22_MetricsAreTotal ==
    MetricDone =>
        /\ ~ret.raised
        /\ ( /\ arg.module # "judge.profiler.metrics"
             /\ LabelField(arg.prediction, "lead_quality") = PyNone ) => ret.score = 0
        /\ ( /\ arg.metric = "test_set_metric"
             /\ LabelField(arg.example, "icp_match") = PyNone ) => ret.score = 0

\* the same metric call on an example whose human label is l
WithLabel(a, l) ==
    [ a EXCEPT !.example = IF a.example.kind = "none" THEN a.example
                           ELSE [ a.example EXCEPT !.icp_match = l ] ]

\* C23: two examples that differ only in icp_match, with the same prediction and
\* judge behaviour, give training_metric the same judge inputs and the same
\* score; test_set_metric depends on icp_match.
C23_TrainingIgnoresGroundTruth ==
    MetricDone =>
        /\ arg.metric = "training_metric" =>
              \A l \in Labels \cup { PyNone, Missing } : MetricOf(WithLabel(arg, l)) = ret
        /\ ( /\ arg.metric = "test_set_metric"
             /\ arg.example.kind # "none"
             /\ LabelField(arg.prediction, "lead_quality") \in Labels ) =>
              \E l \in Labels : MetricOf(WithLabel(arg, l)).score # ret.score

C23_Witness ==
    /\ pc = "metric_returned"
    /\ arg.metric = "training_metric"
    /\ arg.module = "judge.metrics"
    /\ arg.example.icp_match = "not_a_fit"
    /\ ret.score = 100
    /\ Len(ret.judge_inputs) = 1

ScrapeReturned == pc = "tools" /\ iter > 0 /\ arg.tool = "scrape"

\* C24: FirecrawlService.scrape never raises; whenever the page it returns has
\* success = false, the error field is set and the markdown is empty (skipped
\* PDF URLs and provider errors included), and the scrape tool turns such a page
\* into an inline error text.
C24_ScrapeFailureContract ==
    (ScrapeReturned /\ ~ret.page.success) =>
            /\ ret.page.error # PyNone
            /\ MarkdownLen(ret.page.markdown) = 0
            /\ ret.output.text = "Error scraping {url}: {result.error}"
            /\ ret.output.error # PyNone

\* C25: the page content a scrape call hands back to the reasoning context is at
\* most 10,000 characters, for fresh scrapes and cache hits alike; a search call
\* returns at most 10 results.
C25_ContentBound ==
    /\ ScrapeReturned => MarkdownLen(ret.output.content) <= 10000
    /\ (pc = "tools" /\ iter > 0 /\ arg.tool = "search") => ret.results <= 10

\* The internal form of a display form, compared without regard to case
InternalOfIgnoringCase(value) ==
    IF Lower(value) = Lower(StrongFitDisplay) THEN << "strong_fit" >>
    ELSE IF Lower(value) = Lower(WeakFitDisplay) THEN << "weak_fit" >>
    ELSE IF Lower(value) = Lower(NotAFitDisplay) THEN << "not_a_fit" >>
    ELSE value

\* C26 (as stated): normalize_classification maps the display forms "Strong fit",
\* "Weak fit", "Not a fit" to strong_fit, weak_fit, not_a_fit, matching the display
\* form case-insensitively, and returns every other value unchanged.
C26_NormalizeIgnoringCase ==
    pc = "normalized" => ret.icp_match = InternalOfIgnoringCase(arg.icp_match)

\* C26 (amended): normalize_classification maps exactly the three display forms
\* "Strong fit", "Weak fit", "Not a fit", compared character for character, to
\* strong_fit, weak_fit, not_a_fit; every other value, a display form in another
\* case included, is returned unchanged.
C26_NormalizeExact ==
    pc = "normalized" =>
        /\ arg.icp_match = StrongFitDisplay => ret.icp_match = << "strong_fit" >>
        /\ arg.icp_match = WeakFitDisplay => ret.icp_match = << "weak_fit" >>
        /\ arg.icp_match = NotAFitDisplay => ret.icp_match = << "not_a_fit" >>
        /\ arg.icp_match \notin { StrongFitDisplay, WeakFitDisplay, NotAFitDisplay } =>
              ret.icp_match = arg.icp_match

C26_Witness ==
    /\ pc = "normalized"
    /\ arg.icp_match = NotAFitDisplay
    /\ ret.icp_match = << "not_a_fit" >>

\* C27: every classifier call inside the loop is made without the forcing flag (and
\* without the forcing note in its context); the forced classification is made at
\* most once in a run, is the last step of the run, comes only after the loop
\* used up its budget or a follow-up research call raised, and is never made in
\* a run whose loop produced a final verdict.
C27_ForcedFinalOrdering ==
    ClassifyController =>
        /\ "force_classification" \notin LoopKeywords(variant)
        /\ (trace # << >> /\ Last(trace) \in LoopClassifyEvents)
              => lastContext = LoopContext(variant, blackboard)
        /\ Count(trace, "final_classify") <= 1
        /\ Count(trace, "classify:final") > 0 => Count(trace, "final_classify") = 0
        /\ \A k \in 1..Len(trace) :
              trace[k] = "final_classify" =>
                  /\ k = Len(trace)
                  /\ Terminated
                  /\ \/ LoopClassifications = MAX_INVESTIGATION_ROUNDS(variant)
                     \/ /\ k > 2
                        /\ trace[k - 1] = "research_raise"
                        /\ trace[k - 2] = "classify:goal"

C27_Witness ==
    /\ variant = "evolver"
    /\ pc = "returned"
    /\ Last(trace) = "final_classify"
    /\ LoopClassifications = MAX_INVESTIGATION_ROUNDS(variant)
    /\ lastContext = FinalContext(variant, blackboard)

\* C28: at every return of a classification controller investigation_rounds is the
\* number of research calls of the run that completed without raising; during a
\* run it never decreases, a research call that raises leaves it as it was, and
\* it never exceeds MAX_INVESTIGATION_ROUNDS + 1.
C28_RoundCounter ==
    /\ [](ClassifyController =>
            /\ investigation_rounds = Count(trace, "research_ok")
            /\ investigation_rounds <= MAX_INVESTIGATION_ROUNDS(variant) + 1
            /\ pc = "returned" => result.investigation_rounds = Count(trace, "research_ok"))
    /\ [][ClassifyController =>
            /\ investigation_rounds' >= investigation_rounds
            /\ (Len(trace') = Len(trace) + 1 /\ Last(trace') = "research_raise")
                  => investigation_rounds' = investigation_rounds]_vars

C28_Witness ==
    /\ ClassifyController
    /\ pc = "returned"
    /\ Count(trace, "research_raise") = 0
    /\ result.investigation_rounds = MAX_INVESTIGATION_ROUNDS(variant) + 1

\* C29: in LeadProfilerPipeline.forward, once a Profiler Step call has returned a final
\* result (no research goal, or one of at most 5 characters), no further Profiler or
\* Research Step call is made and the profile and research_goal of the returned
\* record are those of that call; the Profiler Step is called at most
\* MAX_INVESTIGATION_ROUNDS + 1 times in a run.
C29_ProfilerLoopFinality ==
    /\ [](variant = "profiler" =>
            /\ Count(trace, "profile") <= MAX_INVESTIGATION_ROUNDS(variant) + 1
            /\ pc = "returned" =>
                  /\ result.profile = profile
                  /\ result.research_goal = research_goal)
    /\ [][(variant = "profiler" /\ output_ready) =>
            /\ Count(trace', "profile") = Count(trace, "profile")
            /\ Count(trace', "research_ok") = Count(trace, "research_ok")
            /\ Count(trace', "research_raise") = Count(trace, "research_raise")
            /\ profile' = profile
            /\ research_goal' = research_goal]_vars

\* C30: with training_metric evaluated by several threads at once, get_judge
\* constructs at most one judge instance and every caller receives that same
\* instance.
C30_OneSharedJudge ==
    pc = "threads" =>
        /\ constructed <= 1
        /\ \A t, u \in DOMAIN threads :
              (threads[t].pc = "judging" /\ threads[u].pc = "judging")
                  => threads[t].judge = threads[u].judge

====
